---- MODULE Spec2Model ----
(***************************************************************************)
(* SyntheticDataMarket (contracts/SyntheticDataMarket.sol): the escrow     *)
(* ledger of the marketplace as a state machine.                           *)
(*                                                                         *)
(* One action per external function of the contract.  A function that      *)
(* makes no external call is one atomic step (an EVM transaction).  A      *)
(* function that forwards ETH (cancelRequest, verifySubmission,            *)
(* emergencyWithdraw) is two steps: the first runs the function up to and  *)
(* including the low-level call (checks, bookkeeping, value moved) and     *)
(* pushes a frame; while the frame is open the recipient's code runs and   *)
(* may call back into the contract; the second step is the call's return,  *)
(* either with success (the statements after the call run) or with failure *)
(* (require(sent) reverts the transaction: storage and balances return to  *)
(* the frame's snapshot).  A call whose require fails reverts: the EVM      *)
(* discards its writes, so it is no step of the state machine.  Each       *)
(* function's ...Check operator lists its require statements in order and  *)
(* gives the reason of the first that fails ("ok" when none does); the     *)
(* function's action is enabled exactly when its Check is "ok".            *)
(*                                                                         *)
(* Left out as opaque payload the contract never reads: Request            *)
(* .description/.createdAt, Submission.fileSize/.sampleCount/              *)
(* .fileExtensions/.datasetReference/.createdAt.  uint256 amounts are far  *)
(* below 2^256 (the sum of all ETH), so their arithmetic is unbounded      *)
(* here; the checked subtraction of Solidity 0.8 is modelled (Panic).      *)
(***************************************************************************)
EXTENDS Integers, Sequences, FiniteSets, TLC

\* ---------------------------------------------------------------- bounds
NumAddr == 2
MaxRequests == 2
MaxSubmissions == 2
MaxDeposit == 2
InitBal == 2
MaxAuxCalls == 1
MaxDonation == 1

Addr == 1..NumAddr            \* externally owned accounts and contracts
Deployer == 1                 \* the account that deploys the contract
ZeroAddr == 0                 \* address(0)
RequestIds == 1..MaxRequests
SubmissionIds == 1..MaxSubmissions
MaskInputs == {0, 2}          \* _formatsMask: none, {CSV}
ScoreInputs == {90}           \* _qualityScore
CidInputs == {"Qm1"}          \* _qualityReportCid
FormatInputs == {1}           \* DataFormat.CSV

DataFormat == 0..5            \* AUDIO, CSV, IMAGE, TEXT, VIDEO, MIXED
MaskRange == {0, 2, 63, 64, 192}        \* _formatsMask (uint8): none, {CSV},
                                        \* all six, bit 6, bits 6 and 7
ScoreRange == {0, 69, 70, 100, 101, 255}  \* _qualityScore (uint8)

\* ------------------------------------------------------------ state
VARIABLES
  owner, qualityVerifier, whitelistEnabled, sellerWhitelist, modelRegistry,
  modelRegistryEnabled, allowModelSelfVerify,
  requestCounter, submissionCounter, totalEscrowed, locked,
  requests, submissions, buyerRequests, sellerSubmissions, verifierHistory,
  hasSubmittedForRequest,
  balance,      \* address(this).balance
  wallet,       \* the balance of every other account
  deposited,    \* history: the msg.value of the createRequest of each request
  payouts,      \* history: the transfers issued on behalf of each request
  frames,       \* the external calls in flight, innermost last
  auxCalls,     \* history: successful calls outside the request lifecycle
                \* (administrative setters, plain transfers), bounded
  events        \* the log entries of the latest call, in the order emitted
                \* (recorded under SpecEvents; left empty elsewhere)

adminVars == <<owner, qualityVerifier, whitelistEnabled, sellerWhitelist,
               modelRegistry, modelRegistryEnabled, allowModelSelfVerify>>
requestVars == <<requestCounter, requests, buyerRequests, deposited>>
submissionVars == <<submissionCounter, submissions, sellerSubmissions,
                    verifierHistory, hasSubmittedForRequest>>
fundVars == <<totalEscrowed, balance, wallet, payouts>>
vars == <<adminVars, requestVars, submissionVars, fundVars, locked, frames,
          auxCalls, events>>

ZeroRequest ==
  [id |-> 0, buyer |-> ZeroAddr, budget |-> 0, formatsMask |-> 0,
   status |-> "OPEN", qualityScore |-> 0, qualityReportCid |-> "",
   finalizedSubmissionId |-> 0]

ZeroSubmission ==
  [id |-> 0, requestId |-> 0, seller |-> ZeroAddr, model |-> ZeroAddr,
   format |-> 0, status |-> "PENDING", qualityChecked |-> FALSE]

\* A mapping read: an id that was never written reads as the zero struct.
Req(rid) == IF rid \in DOMAIN requests THEN requests[rid] ELSE ZeroRequest
Sub(sid) == IF sid \in DOMAIN submissions THEN submissions[sid] ELSE ZeroSubmission

\* Everything a revert restores: the contract's storage, the balances and the
\* history variables.
Snapshot ==
  [owner |-> owner, qualityVerifier |-> qualityVerifier,
   whitelistEnabled |-> whitelistEnabled, sellerWhitelist |-> sellerWhitelist,
   modelRegistry |-> modelRegistry, modelRegistryEnabled |-> modelRegistryEnabled,
   allowModelSelfVerify |-> allowModelSelfVerify,
   requestCounter |-> requestCounter, submissionCounter |-> submissionCounter,
   totalEscrowed |-> totalEscrowed, locked |-> locked,
   requests |-> requests, submissions |-> submissions,
   buyerRequests |-> buyerRequests, sellerSubmissions |-> sellerSubmissions,
   verifierHistory |-> verifierHistory,
   hasSubmittedForRequest |-> hasSubmittedForRequest,
   balance |-> balance, wallet |-> wallet,
   deposited |-> deposited, payouts |-> payouts]

Restore(s) ==
  /\ owner' = s.owner
  /\ qualityVerifier' = s.qualityVerifier
  /\ whitelistEnabled' = s.whitelistEnabled
  /\ sellerWhitelist' = s.sellerWhitelist
  /\ modelRegistry' = s.modelRegistry
  /\ modelRegistryEnabled' = s.modelRegistryEnabled
  /\ allowModelSelfVerify' = s.allowModelSelfVerify
  /\ requestCounter' = s.requestCounter
  /\ submissionCounter' = s.submissionCounter
  /\ totalEscrowed' = s.totalEscrowed
  /\ locked' = s.locked
  /\ requests' = s.requests
  /\ submissions' = s.submissions
  /\ buyerRequests' = s.buyerRequests
  /\ sellerSubmissions' = s.sellerSubmissions
  /\ verifierHistory' = s.verifierHistory
  /\ hasSubmittedForRequest' = s.hasSubmittedForRequest
  /\ balance' = s.balance
  /\ wallet' = s.wallet
  /\ deposited' = s.deposited
  /\ payouts' = s.payouts

\* The accounts that can call now: anyone between transactions; while an
\* external call is in flight, the code of its recipient.
InFlight == frames # <<>>
Top == frames[Len(frames)]
Callers == IF InFlight THEN {Top.to} ELSE Addr

\* ------------------------------------------------------------ construction
\* constructor(_initialVerifier): the deployer owns the contract; every
\* toggle is off, every mapping empty, every counter 0, the lock free.
\* scripts/deploy.js passes the deployer's own address as _initialVerifier.
Init ==
  /\ owner = Deployer
  /\ qualityVerifier = Deployer
  /\ whitelistEnabled = FALSE
  /\ sellerWhitelist = {}
  /\ modelRegistry = {}
  /\ modelRegistryEnabled = FALSE
  /\ allowModelSelfVerify = FALSE
  /\ requestCounter = 0
  /\ submissionCounter = 0
  /\ totalEscrowed = 0
  /\ locked = 1
  /\ requests = [r \in RequestIds |-> ZeroRequest]
  /\ submissions = [s \in SubmissionIds |-> ZeroSubmission]
  /\ buyerRequests = [a \in Addr |-> <<>>]
  /\ sellerSubmissions = [a \in Addr |-> <<>>]
  /\ verifierHistory = [a \in Addr |-> <<>>]
  /\ hasSubmittedForRequest = {}
  /\ balance = 0
  /\ wallet = [a \in Addr |-> InitBal]
  /\ deposited = [r \in RequestIds |-> 0]
  /\ payouts = [r \in RequestIds |-> <<>>]
  /\ frames = <<>>
  /\ auxCalls = 0
  /\ events = <<>>

\* ------------------------------------------------------------ modifiers
\* modifier nonReentrant: require(locked == 1).
nonReentrant == locked = 1

\* Variant: onlyOwner lets every caller pass.
onlyOwner_anyone(sender) == TRUE

\* modifier onlyOwner: require(msg.sender == owner).
onlyOwner(sender) == sender = owner

\* ------------------------------------------------------------ external call
\* Variant: the call forwards no value.
Call_nothingSent(op, sender, to, amount, rid, sid, approved, snap) ==
  /\ UNCHANGED <<balance, wallet>>
  /\ payouts' = IF rid \in DOMAIN payouts
                  THEN [payouts EXCEPT ![rid] = Append(@, [to |-> to, amount |-> amount])]
                  ELSE payouts
  /\ frames' = Append(frames, [op |-> op, sender |-> sender, to |-> to,
                               amount |-> amount, rid |-> rid, sid |-> sid,
                               approved |-> approved, snap |-> snap])

\* `to.call{value: amount}('')`: the value moves, then the recipient's code
\* runs.  The frame keeps what the statements after the call need and the
\* state the transaction started in.
Call(op, sender, to, amount, rid, sid, approved, snap) ==
  /\ balance' = balance - amount
  /\ wallet' = [wallet EXCEPT ![to] = @ + amount]
  /\ payouts' = IF rid \in DOMAIN payouts
                  THEN [payouts EXCEPT ![rid] = Append(@, [to |-> to, amount |-> amount])]
                  ELSE payouts
  /\ frames' = Append(frames, [op |-> op, sender |-> sender, to |-> to,
                               amount |-> amount, rid |-> rid, sid |-> sid,
                               approved |-> approved, snap |-> snap])

\* Variant: the decrement of totalEscrowed is forgotten.
escrowAfterRelease_forgotten(amount) == totalEscrowed

\* totalEscrowed -= amount.
escrowAfterRelease(amount) == totalEscrowed - amount

\* Variant: the budget is not zeroed before the transfer.
closeRequest_statusOnly(r) == [r EXCEPT !.status = "CLOSED"]

\* r.status = CLOSED; r.budget = 0 (both written before the transfer).
closeRequest(r) == [r EXCEPT !.status = "CLOSED", !.budget = 0]

\* ------------------------------------------------------------ formats
\* The bitwise AND of two uint8 values.
RECURSIVE BitAnd(_, _)
BitAnd(a, b) ==
  IF a = 0 \/ b = 0 THEN 0
  ELSE (a % 2) * (b % 2) + 2 * BitAnd(a \div 2, b \div 2)

\* _formatBit: uint8(1) << uint8(f).
formatBit(f) == (2 ^ f) % 256

\* _acceptsFormat: (formatsMask & _formatBit(f)) != 0.
acceptsFormat(formatsMask, f) == BitAnd(formatsMask, formatBit(f)) # 0

\* requestAcceptsFormat (view) of a request that exists.
requestAcceptsFormat(rid, format) == acceptsFormat(Req(rid).formatsMask, format)

\* ------------------------------------------------------------ buyer functions
\* Variant: an id is skipped at every allocation.
increment_byTwo(counter) == counter + 2

\* requestCounter++ / submissionCounter++: the id of the new record.
increment(counter) == counter + 1

\* Variant: createRequest without require(_formatsMask != 0).
createRequestCheck_noMask(value, mask) ==
  CASE ~nonReentrant -> "Reentrant call"
    [] ~(value > 0) -> "Budget must be > 0"
    [] OTHER -> "ok"

\* The first failing require of createRequest, "ok" when none fails.
createRequestCheck(value, mask) ==
  CASE ~nonReentrant -> "Reentrant call"
    [] ~(value > 0) -> "Budget must be > 0"
    [] mask = 0 -> "Must accept at least one format"
    [] OTHER -> "ok"

createRequest(sender, value, mask) ==
  /\ value <= wallet[sender]
  /\ LET e == createRequestCheck(value, mask)
         rid == increment(requestCounter)
     IN /\ e = "ok"
        /\ requestCounter < MaxRequests
        /\ requestCounter' = rid
        /\ requests' = [requests EXCEPT ![rid] =
             [ZeroRequest EXCEPT !.id = rid, !.buyer = sender,
                !.budget = value, !.formatsMask = mask, !.status = "OPEN"]]
        /\ buyerRequests' = [buyerRequests EXCEPT ![sender] = Append(@, rid)]
        /\ totalEscrowed' = totalEscrowed + value
        /\ balance' = balance + value
        /\ wallet' = [wallet EXCEPT ![sender] = @ - value]
        /\ deposited' = [deposited EXCEPT ![rid] = value]
        /\ locked' = 1
        /\ UNCHANGED <<adminVars, submissionVars, payouts, frames, auxCalls>>

\* Variant: cancelRequest without require(r.status == OPEN).
cancelRequestCheck_noStatus(sender, rid) ==
  CASE ~nonReentrant -> "Reentrant call"
    [] Req(rid).id = 0 -> "Request not found"
    [] Req(rid).buyer # sender -> "Only buyer"
    [] Req(rid).budget > totalEscrowed -> "Panic(0x11)"
    [] Req(rid).budget > balance -> "Refund failed"
    [] OTHER -> "ok"

\* Variant: cancelRequest tests the status before the caller.
cancelRequestCheck_statusFirst(sender, rid) ==
  CASE ~nonReentrant -> "Reentrant call"
    [] Req(rid).id = 0 -> "Request not found"
    [] Req(rid).status # "OPEN" -> "Request not open"
    [] Req(rid).buyer # sender -> "Only buyer"
    [] Req(rid).budget > totalEscrowed -> "Panic(0x11)"
    [] Req(rid).budget > balance -> "Refund failed"
    [] OTHER -> "ok"

\* Variant: cancelRequest without require(r.buyer == msg.sender).
cancelRequestCheck_anyCaller(sender, rid) ==
  CASE ~nonReentrant -> "Reentrant call"
    [] Req(rid).id = 0 -> "Request not found"
    [] Req(rid).status # "OPEN" -> "Request not open"
    [] Req(rid).budget > totalEscrowed -> "Panic(0x11)"
    [] Req(rid).budget > balance -> "Refund failed"
    [] OTHER -> "ok"

\* The first failing require of cancelRequest up to the transfer.  The last
\* two cases are the checked subtraction and a call the balance cannot fund
\* (sent = false).
cancelRequestCheck(sender, rid) ==
  CASE ~nonReentrant -> "Reentrant call"
    [] Req(rid).id = 0 -> "Request not found"
    [] Req(rid).buyer # sender -> "Only buyer"
    [] Req(rid).status # "OPEN" -> "Request not open"
    [] Req(rid).budget > totalEscrowed -> "Panic(0x11)"
    [] Req(rid).budget > balance -> "Refund failed"
    [] OTHER -> "ok"

cancelRequest(sender, rid) ==
  LET e == cancelRequestCheck(sender, rid)
      r == Req(rid)
      amount == r.budget
  IN /\ e = "ok"
     /\ requests' = [requests EXCEPT ![rid] = closeRequest(r)]
     /\ totalEscrowed' = escrowAfterRelease(amount)
     /\ locked' = 2
     /\ Call("cancelRequest", sender, r.buyer, amount, rid, 0, FALSE, Snapshot)
     /\ UNCHANGED <<adminVars, requestCounter, buyerRequests, deposited,
                    submissionVars, auxCalls>>

\* ------------------------------------------------------------ seller functions
\* Variant: submitDataset without require(r.status == OPEN).
submitDatasetCheck_noStatus(sender, rid) ==
  CASE ~nonReentrant -> "Reentrant call"
    [] Req(rid).id = 0 -> "Request not found"
    [] whitelistEnabled /\ sender \notin sellerWhitelist -> "Seller not whitelisted"
    [] <<rid, sender>> \in hasSubmittedForRequest -> "Already submitted for this request"
    [] OTHER -> "ok"

\* Variant: submitDataset without require(!hasSubmittedForRequest[..][..]).
submitDatasetCheck_noDuplicate(sender, rid) ==
  CASE ~nonReentrant -> "Reentrant call"
    [] Req(rid).id = 0 -> "Request not found"
    [] Req(rid).status # "OPEN" -> "Request not open"
    [] whitelistEnabled /\ sender \notin sellerWhitelist -> "Seller not whitelisted"
    [] OTHER -> "ok"

\* Variant: the whitelist is consulted whether or not it is enabled.
submitDatasetCheck_whitelistAlways(sender, rid) ==
  CASE ~nonReentrant -> "Reentrant call"
    [] Req(rid).id = 0 -> "Request not found"
    [] Req(rid).status # "OPEN" -> "Request not open"
    [] sender \notin sellerWhitelist -> "Seller not whitelisted"
    [] <<rid, sender>> \in hasSubmittedForRequest -> "Already submitted for this request"
    [] OTHER -> "ok"

\* The first failing require of submitDataset.
submitDatasetCheck(sender, rid) ==
  CASE ~nonReentrant -> "Reentrant call"
    [] Req(rid).id = 0 -> "Request not found"
    [] Req(rid).status # "OPEN" -> "Request not open"
    [] whitelistEnabled /\ sender \notin sellerWhitelist -> "Seller not whitelisted"
    [] <<rid, sender>> \in hasSubmittedForRequest -> "Already submitted for this request"
    [] OTHER -> "ok"

\* Variant: the model is recorded as supplied.
producerModel_asGiven(sender, model) == model

\* s.model: the supplied model, the caller when none is supplied.
producerModel(sender, model) == IF model = ZeroAddr THEN sender ELSE model

submitDataset(sender, rid, format, model) ==
  LET e == submitDatasetCheck(sender, rid)
      sid == increment(submissionCounter)
  IN /\ e = "ok"
     /\ submissionCounter < MaxSubmissions
     /\ submissionCounter' = sid
     /\ submissions' = [submissions EXCEPT ![sid] =
          [ZeroSubmission EXCEPT !.id = sid, !.requestId = rid,
             !.seller = sender,
             !.model = producerModel(sender, model),
             !.format = format, !.status = "PENDING",
             !.qualityChecked = FALSE]]
     /\ sellerSubmissions' = [sellerSubmissions EXCEPT ![sender] = Append(@, sid)]
     /\ hasSubmittedForRequest' = hasSubmittedForRequest \cup {<<rid, sender>>}
     /\ locked' = 1
     /\ UNCHANGED <<adminVars, requestVars, verifierHistory, fundVars,
                    frames, auxCalls>>

\* ------------------------------------------------------------ verifier functions
\* Variants: the escrow always goes to the buyer / always to the seller.
payee_buyer(approved, s, r) == r.buyer
payee_seller(approved, s, r) == s.seller

\* Who receives the escrow: the seller on approval, the buyer on rejection.
payee(approved, s, r) == IF approved THEN s.seller ELSE r.buyer

\* Variant: the caller is authorized before the state of the submission and
\* of its request is looked at.
verifySubmissionCheck_authFirst(sender, sid, approved) ==
  LET s == Sub(sid)
      r == Req(s.requestId)
      isVerifier == sender = qualityVerifier
      isModel == sender = s.model
  IN CASE ~nonReentrant -> "Reentrant call"
       [] s.id = 0 -> "Submission not found"
       [] isModel /\ ~allowModelSelfVerify -> "Model self-verify disabled"
       [] isModel /\ modelRegistryEnabled /\ sender \notin modelRegistry
            -> "Model not registered"
       [] ~(isVerifier \/ isModel)
            -> "Only quality verifier or allowed model may verify"
       [] s.qualityChecked -> "Submission already verified"
       [] r.id = 0 -> "Associated request not found"
       [] r.status # "OPEN" -> "Request already finalized"
       [] ~(r.budget > 0) -> "No funds in escrow"
       [] r.budget > totalEscrowed -> "Panic(0x11)"
       [] r.budget > balance ->
            IF approved THEN "Payment to seller failed" ELSE "Refund to buyer failed"
       [] OTHER -> "ok"

\* Variant: a registered model passes the self-verify gate.
verifySubmissionCheck_registryOverrides(sender, sid, approved) ==
  LET s == Sub(sid)
      r == Req(s.requestId)
      isVerifier == sender = qualityVerifier
      isModel == sender = s.model
  IN CASE ~nonReentrant -> "Reentrant call"
       [] s.id = 0 -> "Submission not found"
       [] s.qualityChecked -> "Submission already verified"
       [] r.id = 0 -> "Associated request not found"
       [] r.status # "OPEN" -> "Request already finalized"
       [] isModel /\ ~allowModelSelfVerify /\ sender \notin modelRegistry
            -> "Model self-verify disabled"
       [] isModel /\ modelRegistryEnabled /\ sender \notin modelRegistry
            -> "Model not registered"
       [] ~(isVerifier \/ isModel)
            -> "Only quality verifier or allowed model may verify"
       [] ~(r.budget > 0) -> "No funds in escrow"
       [] r.budget > totalEscrowed -> "Panic(0x11)"
       [] r.budget > balance ->
            IF approved THEN "Payment to seller failed" ELSE "Refund to buyer failed"
       [] OTHER -> "ok"

\* Variant: the caller is authorized before the request is looked at.
verifySubmissionCheck_authBeforeRequest(sender, sid, approved) ==
  LET s == Sub(sid)
      r == Req(s.requestId)
      isVerifier == sender = qualityVerifier
      isModel == sender = s.model
  IN CASE ~nonReentrant -> "Reentrant call"
       [] s.id = 0 -> "Submission not found"
       [] s.qualityChecked -> "Submission already verified"
       [] isModel /\ ~allowModelSelfVerify -> "Model self-verify disabled"
       [] isModel /\ modelRegistryEnabled /\ sender \notin modelRegistry
            -> "Model not registered"
       [] ~(isVerifier \/ isModel)
            -> "Only quality verifier or allowed model may verify"
       [] r.id = 0 -> "Associated request not found"
       [] r.status # "OPEN" -> "Request already finalized"
       [] ~(r.budget > 0) -> "No funds in escrow"
       [] r.budget > totalEscrowed -> "Panic(0x11)"
       [] r.budget > balance ->
            IF approved THEN "Payment to seller failed" ELSE "Refund to buyer failed"
       [] OTHER -> "ok"

\* Variant: verifySubmission looks at neither the status nor the budget of
\* the request.
verifySubmissionCheck_noRequestState(sender, sid, approved) ==
  LET s == Sub(sid)
      r == Req(s.requestId)
      isVerifier == sender = qualityVerifier
      isModel == sender = s.model
  IN CASE ~nonReentrant -> "Reentrant call"
       [] s.id = 0 -> "Submission not found"
       [] s.qualityChecked -> "Submission already verified"
       [] r.id = 0 -> "Associated request not found"
       [] isModel /\ ~allowModelSelfVerify -> "Model self-verify disabled"
       [] isModel /\ modelRegistryEnabled /\ sender \notin modelRegistry
            -> "Model not registered"
       [] ~(isVerifier \/ isModel)
            -> "Only quality verifier or allowed model may verify"
       [] r.budget > totalEscrowed -> "Panic(0x11)"
       [] r.budget > balance ->
            IF approved THEN "Payment to seller failed" ELSE "Refund to buyer failed"
       [] OTHER -> "ok"

\* The first failing require of verifySubmission up to the transfer.  "No
\* funds in escrow" is tested after the first writes, which the revert
\* undoes; the last two cases are the checked subtraction and a call the
\* balance cannot fund (sent = false).
verifySubmissionCheck(sender, sid, approved) ==
  LET s == Sub(sid)
      r == Req(s.requestId)
      isVerifier == sender = qualityVerifier
      isModel == sender = s.model
  IN CASE ~nonReentrant -> "Reentrant call"
       [] s.id = 0 -> "Submission not found"
       [] s.qualityChecked -> "Submission already verified"
       [] r.id = 0 -> "Associated request not found"
       [] r.status # "OPEN" -> "Request already finalized"
       [] isModel /\ ~allowModelSelfVerify -> "Model self-verify disabled"
       [] isModel /\ modelRegistryEnabled /\ sender \notin modelRegistry
            -> "Model not registered"
       [] ~(isVerifier \/ isModel)
            -> "Only quality verifier or allowed model may verify"
       [] ~(r.budget > 0) -> "No funds in escrow"
       [] r.budget > totalEscrowed -> "Panic(0x11)"
       [] r.budget > balance ->
            IF approved THEN "Payment to seller failed" ELSE "Refund to buyer failed"
       [] OTHER -> "ok"

\* Variant: the approval branch is taken only for a score of at least 70.
verdict_threshold(approved, score) == approved /\ score >= 70

\* if (_approved) { pay the seller } else { refund the buyer }: the branch
\* that verifySubmission takes.
verdict(approved, score) == approved

verifySubmission(sender, sid, approved, score, cid) ==
  LET e == verifySubmissionCheck(sender, sid, approved)
      s == Sub(sid)
      rid == s.requestId
      r == Req(rid)
      amount == r.budget
      taken == verdict(approved, score)
      to == payee(taken, s, r)
  IN /\ e = "ok"
     /\ submissions' = [submissions EXCEPT ![sid] =
          [s EXCEPT !.qualityChecked = TRUE,
                    !.status = IF taken THEN "APPROVED" ELSE "REJECTED"]]
     /\ verifierHistory' = [verifierHistory EXCEPT ![sender] = Append(@, sid)]
     /\ requests' = [requests EXCEPT ![rid] =
          closeRequest([r EXCEPT !.qualityScore = score,
                                 !.qualityReportCid = cid,
                                 !.finalizedSubmissionId = sid])]
     /\ totalEscrowed' = escrowAfterRelease(amount)
     /\ locked' = 2
     /\ Call("verifySubmission", sender, to, amount, rid, sid, approved, Snapshot)
     /\ UNCHANGED <<adminVars, requestCounter, buyerRequests, deposited,
                    submissionCounter, sellerSubmissions,
                    hasSubmittedForRequest, auxCalls>>


\* ------------------------------------------------------------ admin functions
\* The administrative setters carry onlyOwner and no nonReentrant.
onlyOwnerCheck(sender) == IF onlyOwner(sender) THEN "ok" ELSE "Only owner"

transferOwnershipCheck(sender, newOwner) ==
  CASE ~onlyOwner(sender) -> "Only owner"
    [] newOwner = ZeroAddr -> "Zero address"
    [] OTHER -> "ok"

\* A setter writes nothing but its own field.
AdminDone == UNCHANGED <<requestVars, submissionVars, fundVars, locked, frames>>

\* The bound on the calls outside the request lifecycle in one behaviour.
Budgeted == auxCalls < MaxAuxCalls /\ auxCalls' = auxCalls + 1

setQualityVerifier(sender, verifier) ==
  /\ onlyOwnerCheck(sender) = "ok"
  /\ qualityVerifier' = verifier
  /\ AdminDone
  /\ UNCHANGED <<owner, whitelistEnabled, sellerWhitelist, modelRegistry,
                 modelRegistryEnabled, allowModelSelfVerify>>

setModelRegistryEnabled(sender, enabled) ==
  /\ onlyOwnerCheck(sender) = "ok"
  /\ modelRegistryEnabled' = enabled
  /\ AdminDone
  /\ UNCHANGED <<owner, qualityVerifier, whitelistEnabled, sellerWhitelist,
                 modelRegistry, allowModelSelfVerify>>

updateModelRegistry(sender, model, allowed) ==
  /\ onlyOwnerCheck(sender) = "ok"
  /\ modelRegistry' = IF allowed THEN modelRegistry \cup {model}
                                 ELSE modelRegistry \ {model}
  /\ AdminDone
  /\ UNCHANGED <<owner, qualityVerifier, whitelistEnabled, sellerWhitelist,
                 modelRegistryEnabled, allowModelSelfVerify>>

setAllowModelSelfVerify(sender, allow) ==
  /\ onlyOwnerCheck(sender) = "ok"
  /\ allowModelSelfVerify' = allow
  /\ AdminDone
  /\ UNCHANGED <<owner, qualityVerifier, whitelistEnabled, sellerWhitelist,
                 modelRegistry, modelRegistryEnabled>>

setWhitelistEnabled(sender, enabled) ==
  /\ onlyOwnerCheck(sender) = "ok"
  /\ whitelistEnabled' = enabled
  /\ AdminDone
  /\ UNCHANGED <<owner, qualityVerifier, sellerWhitelist, modelRegistry,
                 modelRegistryEnabled, allowModelSelfVerify>>

updateSellerWhitelist(sender, seller, allowed) ==
  /\ onlyOwnerCheck(sender) = "ok"
  /\ sellerWhitelist' = IF allowed THEN sellerWhitelist \cup {seller}
                                   ELSE sellerWhitelist \ {seller}
  /\ AdminDone
  /\ UNCHANGED <<owner, qualityVerifier, whitelistEnabled, modelRegistry,
                 modelRegistryEnabled, allowModelSelfVerify>>

transferOwnership(sender, newOwner) ==
  /\ transferOwnershipCheck(sender, newOwner) = "ok"
  /\ owner' = newOwner
  /\ AdminDone
  /\ UNCHANGED <<qualityVerifier, whitelistEnabled, sellerWhitelist,
                 modelRegistry, modelRegistryEnabled, allowModelSelfVerify>>

\* Variant: the whole balance counts as free.
freeBalance_whole == balance

\* uint256 freeBalance = available - totalEscrowed.
freeBalance == balance - totalEscrowed

\* Variant: emergencyWithdraw without onlyOwner.
emergencyWithdrawCheck_anyone(sender, amount) ==
  CASE ~nonReentrant -> "Reentrant call"
    [] ~(balance >= totalEscrowed) -> "Invariant: balance less than escrowed"
    [] ~(amount <= freeBalance) -> "Amount exceeds available non-escrow funds"
    [] amount > balance -> "Emergency withdraw failed"
    [] OTHER -> "ok"

\* The first failing require of emergencyWithdraw up to the transfer
\* (onlyOwner is listed before nonReentrant).
emergencyWithdrawCheck(sender, amount) ==
  CASE ~onlyOwner(sender) -> "Only owner"
    [] ~nonReentrant -> "Reentrant call"
    [] ~(balance >= totalEscrowed) -> "Invariant: balance less than escrowed"
    [] ~(amount <= freeBalance) -> "Amount exceeds available non-escrow funds"
    [] amount > balance -> "Emergency withdraw failed"
    [] OTHER -> "ok"

emergencyWithdraw(sender, to, amount) ==
  LET e == emergencyWithdrawCheck(sender, amount)
  IN /\ e = "ok"
     /\ locked' = 2
     /\ Call("emergencyWithdraw", sender, to, amount, 0, 0, FALSE, Snapshot)
     /\ UNCHANGED <<adminVars, requestVars, submissionVars, totalEscrowed,
                    auxCalls>>

\* receive() / fallback(): plain ETH sent to the contract is accepted.  Neither
\* has a guard or touches storage.  The sender is an account outside Addr
\* (an exchange, a selfdestruct).
receive(value) ==
  /\ ~InFlight
  /\ auxCalls < MaxAuxCalls
  /\ auxCalls' = auxCalls + 1
  /\ balance' = balance + value
  /\ UNCHANGED <<adminVars, requestVars, submissionVars, totalEscrowed, wallet,
                 payouts, locked, frames>>

\* ------------------------------------------------------------ return of a call
\* The reason of the require(sent, ...) that follows the call of each function.
sendFailure(f) ==
  CASE f.op = "cancelRequest" -> "Refund failed"
    [] f.op = "emergencyWithdraw" -> "Emergency withdraw failed"
    [] f.op = "verifySubmission" /\ f.approved -> "Payment to seller failed"
    [] OTHER -> "Refund to buyer failed"

\* Variant: the status is not written after the transfer.
settled_notWritten(f, s) == s

\* s.status = PAID / REFUNDED: the only write after the transfer.
settled(f, s) ==
  [s EXCEPT !.status = IF verdict(f.approved, Req(f.rid).qualityScore)
                         THEN "PAID" ELSE "REFUNDED"]

\* The recipient accepted the funds (sent = true): the rest of the function
\* runs and nonReentrant releases the lock.
transferSucceeds ==
  /\ InFlight
  /\ submissions' = IF Top.op = "verifySubmission"
                      THEN [submissions EXCEPT ![Top.sid] = settled(Top, @)]
                      ELSE submissions
  /\ locked' = 1
  /\ frames' = SubSeq(frames, 1, Len(frames) - 1)
  /\ UNCHANGED <<adminVars, requestVars, submissionCounter, sellerSubmissions,
                 verifierHistory, hasSubmittedForRequest, fundVars, auxCalls>>

\* Variant: the failed transfer is handled without a revert, by undoing the
\* fund movement and the request's fields only.
revertTo_fundsOnly(s) ==
  /\ totalEscrowed' = s.totalEscrowed
  /\ balance' = s.balance
  /\ wallet' = s.wallet
  /\ payouts' = s.payouts
  /\ requests' = s.requests
  /\ locked' = s.locked
  /\ UNCHANGED <<adminVars, requestCounter, buyerRequests, deposited,
                 submissionVars>>

\* Variant: the failed transfer is undone in full, but the function returns
\* without passing the end of nonReentrant.
revertTo_keepsLock(s) ==
  /\ owner' = s.owner
  /\ qualityVerifier' = s.qualityVerifier
  /\ whitelistEnabled' = s.whitelistEnabled
  /\ sellerWhitelist' = s.sellerWhitelist
  /\ modelRegistry' = s.modelRegistry
  /\ modelRegistryEnabled' = s.modelRegistryEnabled
  /\ allowModelSelfVerify' = s.allowModelSelfVerify
  /\ requestCounter' = s.requestCounter
  /\ submissionCounter' = s.submissionCounter
  /\ totalEscrowed' = s.totalEscrowed
  /\ requests' = s.requests
  /\ submissions' = s.submissions
  /\ buyerRequests' = s.buyerRequests
  /\ sellerSubmissions' = s.sellerSubmissions
  /\ verifierHistory' = s.verifierHistory
  /\ hasSubmittedForRequest' = s.hasSubmittedForRequest
  /\ balance' = s.balance
  /\ wallet' = s.wallet
  /\ deposited' = s.deposited
  /\ payouts' = s.payouts
  /\ UNCHANGED locked

\* require(sent, ...): the revert returns the state to that of before the call.
revertTo(s) == Restore(s)

\* The recipient refused the funds (sent = false): require(sent) reverts the
\* whole transaction, the calls made from inside it included.
transferFails ==
  /\ InFlight
  /\ revertTo(Top.snap)
  /\ frames' = SubSeq(frames, 1, Len(frames) - 1)
  /\ UNCHANGED auxCalls

Next ==
  \/ \E sender \in Callers, value \in 0..MaxDeposit, mask \in MaskInputs :
       createRequest(sender, value, mask) /\ UNCHANGED events
  \/ \E sender \in Callers, rid \in 0..MaxRequests : cancelRequest(sender, rid)
       /\ UNCHANGED events
  \/ \E sender \in Callers, rid \in 0..MaxRequests, format \in FormatInputs,
        model \in Addr \cup {ZeroAddr} :
       submitDataset(sender, rid, format, model) /\ UNCHANGED events
  \/ \E sender \in Callers, sid \in 0..MaxSubmissions, approved \in BOOLEAN,
        score \in ScoreInputs, cid \in CidInputs :
       verifySubmission(sender, sid, approved, score, cid) /\ UNCHANGED events
  \/ \E sender \in Callers, verifier \in Addr \cup {ZeroAddr} :
       setQualityVerifier(sender, verifier) /\ Budgeted /\ UNCHANGED events
  \/ \E sender \in Callers, enabled \in BOOLEAN :
       setModelRegistryEnabled(sender, enabled) /\ Budgeted /\ UNCHANGED events
  \/ \E sender \in Callers, model \in Addr, allowed \in BOOLEAN :
       updateModelRegistry(sender, model, allowed) /\ Budgeted
       /\ UNCHANGED events
  \/ \E sender \in Callers, allow \in BOOLEAN :
       setAllowModelSelfVerify(sender, allow) /\ Budgeted /\ UNCHANGED events
  \/ \E sender \in Callers, enabled \in BOOLEAN :
       setWhitelistEnabled(sender, enabled) /\ Budgeted /\ UNCHANGED events
  \/ \E sender \in Callers, seller \in Addr, allowed \in BOOLEAN :
       updateSellerWhitelist(sender, seller, allowed) /\ Budgeted
       /\ UNCHANGED events
  \/ \E sender \in Callers, newOwner \in Addr \cup {ZeroAddr} :
       transferOwnership(sender, newOwner) /\ Budgeted /\ UNCHANGED events
  \/ \E sender \in Callers, to \in Addr, amount \in 1..MaxDeposit :
       emergencyWithdraw(sender, to, amount) /\ UNCHANGED events
  \/ \E value \in 1..MaxDonation : receive(value) /\ UNCHANGED events
  \/ transferSucceeds /\ UNCHANGED events
  \/ transferFails /\ UNCHANGED events

Spec == Init /\ [][Next]_vars

\* The path of a request to its finalization under every authorization
\* setting: the setters that verifySubmission reads are called any number of
\* times; the functions it does not depend on (cancellation, whitelist,
\* ownership, withdrawal, plain transfers) are left out, and every deposit is
\* MaxDeposit.
NextAuth ==
  \/ \E sender \in Callers, mask \in MaskInputs :
       createRequest(sender, MaxDeposit, mask) /\ UNCHANGED events
  \/ \E sender \in Callers, rid \in 0..MaxRequests, format \in FormatInputs,
        model \in Addr \cup {ZeroAddr} :
       submitDataset(sender, rid, format, model) /\ UNCHANGED events
  \/ \E sender \in Callers, sid \in 0..MaxSubmissions, approved \in BOOLEAN,
        score \in ScoreInputs, cid \in CidInputs :
       verifySubmission(sender, sid, approved, score, cid) /\ UNCHANGED events
  \/ \E sender \in Callers, verifier \in Addr :
       setQualityVerifier(sender, verifier) /\ UNCHANGED auxCalls
       /\ UNCHANGED events
  \/ \E sender \in Callers, enabled \in BOOLEAN :
       setModelRegistryEnabled(sender, enabled) /\ UNCHANGED auxCalls
       /\ UNCHANGED events
  \/ \E sender \in Callers, model \in Addr, allowed \in BOOLEAN :
       updateModelRegistry(sender, model, allowed) /\ UNCHANGED auxCalls
       /\ UNCHANGED events
  \/ \E sender \in Callers, allow \in BOOLEAN :
       setAllowModelSelfVerify(sender, allow) /\ UNCHANGED auxCalls
       /\ UNCHANGED events
  \/ transferSucceeds /\ UNCHANGED events
  \/ transferFails /\ UNCHANGED events

SpecAuth == Init /\ [][NextAuth]_vars

\* Submission under every whitelist setting: requests are created, cancelled
\* and submitted to, and the two whitelist setters are called any number of
\* times; every deposit is MaxDeposit.
NextSeller ==
  \/ \E sender \in Callers, mask \in MaskInputs :
       createRequest(sender, MaxDeposit, mask) /\ UNCHANGED events
  \/ \E sender \in Callers, rid \in 0..MaxRequests : cancelRequest(sender, rid)
       /\ UNCHANGED events
  \/ \E sender \in Callers, rid \in 0..MaxRequests, format \in FormatInputs,
        model \in Addr \cup {ZeroAddr} :
       submitDataset(sender, rid, format, model) /\ UNCHANGED events
  \/ \E sender \in Callers, enabled \in BOOLEAN :
       setWhitelistEnabled(sender, enabled) /\ UNCHANGED auxCalls
       /\ UNCHANGED events
  \/ \E sender \in Callers, seller \in Addr, allowed \in BOOLEAN :
       updateSellerWhitelist(sender, seller, allowed) /\ UNCHANGED auxCalls
       /\ UNCHANGED events
  \/ transferSucceeds /\ UNCHANGED events
  \/ transferFails /\ UNCHANGED events

SpecSeller == Init /\ [][NextSeller]_vars

\* The path of a request to its finalization over the range of the uint8
\* inputs: masks with and without a bit of the enumeration, scores at both
\* ends of 0..100 and above it; the settings are those of the constructor and
\* every deposit is MaxDeposit.
NextInputs ==
  \/ \E sender \in Callers, mask \in MaskRange :
       createRequest(sender, MaxDeposit, mask) /\ UNCHANGED events
  \/ \E sender \in Callers, rid \in 0..MaxRequests, format \in FormatInputs,
        model \in Addr \cup {ZeroAddr} :
       submitDataset(sender, rid, format, model) /\ UNCHANGED events
  \/ \E sender \in Callers, sid \in 0..MaxSubmissions, approved \in BOOLEAN,
        score \in ScoreRange, cid \in CidInputs :
       verifySubmission(sender, sid, approved, score, cid) /\ UNCHANGED events
  \/ transferSucceeds /\ UNCHANGED events
  \/ transferFails /\ UNCHANGED events

SpecInputs == Init /\ [][NextInputs]_vars

\* ------------------------------------------------------------ events
RequestCreated(requestId, buyer, budget, formatsMask) ==
  [name |-> "RequestCreated", requestId |-> requestId, buyer |-> buyer,
   budget |-> budget, formatsMask |-> formatsMask]
SubmissionSubmitted(submissionId, requestId, seller, model, format) ==
  [name |-> "SubmissionSubmitted", submissionId |-> submissionId,
   requestId |-> requestId, seller |-> seller, model |-> model,
   format |-> format]
SubmissionVerified(submissionId, requestId, approved, qualityScore, cid) ==
  [name |-> "SubmissionVerified", submissionId |-> submissionId,
   requestId |-> requestId, approved |-> approved,
   qualityScore |-> qualityScore, qualityReportCid |-> cid]
PaymentReleased(submissionId, seller, amount) ==
  [name |-> "PaymentReleased", submissionId |-> submissionId,
   seller |-> seller, amount |-> amount]
RefundIssued(requestId, buyer, amount) ==
  [name |-> "RefundIssued", requestId |-> requestId, buyer |-> buyer,
   amount |-> amount]
QualityVerifierUpdated(previousVerifier, newVerifier) ==
  [name |-> "QualityVerifierUpdated", previousVerifier |-> previousVerifier,
   newVerifier |-> newVerifier]
SellerWhitelistUpdated(seller, allowed) ==
  [name |-> "SellerWhitelistUpdated", seller |-> seller, allowed |-> allowed]
ModelRegistryUpdated(model, allowed) ==
  [name |-> "ModelRegistryUpdated", model |-> model, allowed |-> allowed]
EmergencyWithdrawal(to, amount) ==
  [name |-> "EmergencyWithdrawal", to |-> to, amount |-> amount]

\* The log entries of one call.
emit(log) == events' = log

\* The emit statements of each function, in the order of the code.  Those
\* of cancelRequest, verifySubmission and emergencyWithdraw follow the
\* external call and require(sent): they run when the call returns.
createRequestEmits(sender, value, mask) ==
  <<RequestCreated(increment(requestCounter), sender, value, mask)>>

submitDatasetEmits(sender, rid, format, model) ==
  <<SubmissionSubmitted(increment(submissionCounter), rid, sender,
                        producerModel(sender, model), format)>>

cancelRequestEmits(f) == <<RefundIssued(f.rid, requests[f.rid].buyer, f.amount)>>

verifySubmissionEmits(f) ==
  LET s == submissions[f.sid]
      r == requests[s.requestId]
  IN IF f.approved
       THEN <<SubmissionVerified(f.sid, s.requestId, TRUE, r.qualityScore,
                                 r.qualityReportCid),
              PaymentReleased(f.sid, s.seller, f.amount)>>
       ELSE <<SubmissionVerified(f.sid, s.requestId, FALSE, r.qualityScore,
                                 r.qualityReportCid),
              RefundIssued(s.requestId, r.buyer, f.amount)>>

emergencyWithdrawEmits(f) == <<EmergencyWithdrawal(f.to, f.amount)>>

returnEmits(f) ==
  CASE f.op = "cancelRequest" -> cancelRequestEmits(f)
    [] f.op = "verifySubmission" -> verifySubmissionEmits(f)
    [] f.op = "emergencyWithdraw" -> emergencyWithdrawEmits(f)

setQualityVerifierEmits(verifier) ==
  <<QualityVerifierUpdated(qualityVerifier, verifier)>>
updateModelRegistryEmits(model, allowed) ==
  <<ModelRegistryUpdated(model, allowed)>>
updateSellerWhitelistEmits(seller, allowed) ==
  <<SellerWhitelistUpdated(seller, allowed)>>

\* setModelRegistryEnabled, setAllowModelSelfVerify, setWhitelistEnabled,
\* transferOwnership and receive hold no emit statement.
NoEmit == <<>>

\* Every function with the log entries of its call.  A function that makes
\* an external call has logged nothing when the call starts; a reverted
\* transaction leaves no log entry.
NextEvents ==
  \/ \E sender \in Callers, value \in 0..MaxDeposit, mask \in MaskInputs :
       createRequest(sender, value, mask)
       /\ emit(createRequestEmits(sender, value, mask))
  \/ \E sender \in Callers, rid \in 0..MaxRequests :
       cancelRequest(sender, rid) /\ emit(NoEmit)
  \/ \E sender \in Callers, rid \in 0..MaxRequests, format \in FormatInputs,
        model \in Addr \cup {ZeroAddr} :
       submitDataset(sender, rid, format, model)
       /\ emit(submitDatasetEmits(sender, rid, format, model))
  \/ \E sender \in Callers, sid \in 0..MaxSubmissions, approved \in BOOLEAN,
        score \in ScoreInputs, cid \in CidInputs :
       verifySubmission(sender, sid, approved, score, cid) /\ emit(NoEmit)
  \/ \E sender \in Callers, verifier \in Addr \cup {ZeroAddr} :
       setQualityVerifier(sender, verifier) /\ Budgeted
       /\ emit(setQualityVerifierEmits(verifier))
  \/ \E sender \in Callers, enabled \in BOOLEAN :
       setModelRegistryEnabled(sender, enabled) /\ Budgeted /\ emit(NoEmit)
  \/ \E sender \in Callers, model \in Addr, allowed \in BOOLEAN :
       updateModelRegistry(sender, model, allowed) /\ Budgeted
       /\ emit(updateModelRegistryEmits(model, allowed))
  \/ \E sender \in Callers, allow \in BOOLEAN :
       setAllowModelSelfVerify(sender, allow) /\ Budgeted /\ emit(NoEmit)
  \/ \E sender \in Callers, enabled \in BOOLEAN :
       setWhitelistEnabled(sender, enabled) /\ Budgeted /\ emit(NoEmit)
  \/ \E sender \in Callers, seller \in Addr, allowed \in BOOLEAN :
       updateSellerWhitelist(sender, seller, allowed) /\ Budgeted
       /\ emit(updateSellerWhitelistEmits(seller, allowed))
  \/ \E sender \in Callers, newOwner \in Addr \cup {ZeroAddr} :
       transferOwnership(sender, newOwner) /\ Budgeted /\ emit(NoEmit)
  \/ \E sender \in Callers, to \in Addr, amount \in 1..MaxDeposit :
       emergencyWithdraw(sender, to, amount) /\ emit(NoEmit)
  \/ \E value \in 1..MaxDonation : receive(value) /\ emit(NoEmit)
  \/ transferSucceeds /\ emit(returnEmits(Top))
  \/ transferFails /\ emit(NoEmit)

SpecEvents == Init /\ [][NextEvents]_vars

\* ------------------------------------------------------------ dataset generation
\* The dataType strings of POST /generate: the six supported names in
\* several casings, names outside the table, and a name that every object
\* inherits a property for.
DataTypes ==
  {"audio", "Audio", "AUDIO", "csv", "CSV", "image", "Image", "text", "TEXT",
   "video", "Video", "mixed", "MIXED", "pdf", "PDF", "constructor"}

\* String.prototype.toLowerCase on DataTypes.
toLowerCase(s) ==
  CASE s \in {"audio", "Audio", "AUDIO"} -> "audio"
    [] s \in {"csv", "CSV"} -> "csv"
    [] s \in {"image", "Image"} -> "image"
    [] s \in {"text", "TEXT"} -> "text"
    [] s \in {"video", "Video"} -> "video"
    [] s \in {"mixed", "MIXED"} -> "mixed"
    [] s \in {"pdf", "PDF"} -> "pdf"
    [] s = "constructor" -> "constructor"

\* JavaScript values: a number, undefined, an object (functions included).
JsNumber(n) == [kind |-> "number", num |-> n]
JsUndefined == [kind |-> "undefined", num |-> 0]
JsObject == [kind |-> "object", num |-> 0]

\* ToBoolean: undefined, 0 (and NaN) are falsy, every object is truthy.
Truthy(v) == v.kind = "object" \/ (v.kind = "number" /\ v.num # 0)

\* formatMap[key]: the own properties of the literal, then those inherited
\* from Object.prototype, else undefined.
formatMap(key) ==
  CASE key = "audio" -> JsNumber(0)
    [] key = "csv" -> JsNumber(1)
    [] key = "image" -> JsNumber(2)
    [] key = "text" -> JsNumber(3)
    [] key = "video" -> JsNumber(4)
    [] key = "mixed" -> JsNumber(5)
    [] key = "constructor" -> JsObject
    [] OTHER -> JsUndefined

\* return formatMap[dataType.toLowerCase()] || 3
mapDataTypeToFormat(dataType) ==
  LET v == formatMap(toLowerCase(dataType))
  IN IF Truthy(v) THEN v ELSE JsNumber(3)

\* POST /generate with the mock generator: the format of the metadata is
\* mapDataTypeToFormat(dataType), and the backend wallet submits it with
\* itself as the model.  A format that is no value of the enumeration
\* cannot be encoded for the contract call, which then throws.
generate(sender, rid, dataType) ==
  LET format == mapDataTypeToFormat(dataType)
  IN /\ dataType # ""
     /\ format.kind = "number"
     /\ format.num \in DataFormat
     /\ submitDataset(sender, rid, format.num, sender)

\* Requests are created and datasets generated for them.
NextGenerate ==
  \/ \E sender \in Callers, mask \in MaskInputs :
       createRequest(sender, MaxDeposit, mask) /\ UNCHANGED events
  \/ \E sender \in Callers, rid \in 0..MaxRequests, dataType \in DataTypes :
       generate(sender, rid, dataType) /\ UNCHANGED events

SpecGenerate == Init /\ [][NextGenerate]_vars

\* ================================================================ properties
\* The error kind of the design's taxonomy that a revert reason belongs to.
ErrorKind(reason) ==
  CASE reason \in {"Request not found", "Submission not found",
                   "Associated request not found"} -> "NotFound"
    [] reason \in {"Only buyer", "Only owner", "Model self-verify disabled",
                   "Model not registered", "Seller not whitelisted",
                   "Only quality verifier or allowed model may verify"}
         -> "Unauthorized"
    [] reason \in {"Request not open", "Submission already verified",
                   "Request already finalized"} -> "InvalidState"
    [] reason \in {"Budget must be > 0", "Must accept at least one format",
                   "Zero address"} -> "InvalidInput"
    [] reason = "Already submitted for this request" -> "DuplicateSubmission"
    [] reason = "Payment to seller failed" -> "PayoutFailed"
    [] reason \in {"Refund to buyer failed", "Refund failed"} -> "RefundFailed"
    [] reason = "Reentrant call" -> "Reentrancy"
    [] reason = "ok" -> "ok"
    [] OTHER -> "Other"

RECURSIVE SumOpenBudgets(_)
SumOpenBudgets(S) ==
  IF S = {} THEN 0
  ELSE LET rid == CHOOSE x \in S : TRUE
       IN (IF requests[rid].id # 0 /\ requests[rid].status = "OPEN"
             THEN requests[rid].budget ELSE 0) + SumOpenBudgets(S \ {rid})

\* How often submission sid occurs in the finalization histories of all callers.
RECURSIVE TimesFinalized(_, _)
TimesFinalized(sid, S) ==
  IF S = {} THEN 0
  ELSE LET a == CHOOSE x \in S : TRUE
       IN Cardinality({i \in DOMAIN verifierHistory[a] : verifierHistory[a][i] = sid})
          + TimesFinalized(sid, S \ {a})

Created == {rid \in RequestIds : requests[rid].id # 0}
Submitted == {sid \in SubmissionIds : submissions[sid].id # 0}

\* C1: in every state (between operations, and while a transfer is in flight)
\* totalEscrowed is the sum of budget over the Open requests.
C1_EscrowIsSumOfOpenBudgets == totalEscrowed = SumOpenBudgets(RequestIds)

\* Between operations, a request closed and paid out beside an Open one of
\* budget 2, after a direct transfer into the contract.
C1_Witness ==
  /\ ~InFlight
  /\ auxCalls = 1 /\ balance > totalEscrowed
  /\ \E r1, r2 \in Created :
       /\ requests[r1].status = "CLOSED" /\ payouts[r1] # <<>>
       /\ requests[r2].status = "OPEN" /\ requests[r2].budget = 2

\* C2: in every state, the states a recipient sees during a transfer
\* included, the contract's balance is at least totalEscrowed.
C2_CustodyCoversEscrow == balance >= totalEscrowed

\* An emergency withdrawal of the whole surplus in flight while a request is
\* Open: the recipient sees the balance equal to the escrow.
C2_Witness ==
  /\ InFlight /\ Top.op = "emergencyWithdraw" /\ Top.amount > 0
  /\ totalEscrowed > 0 /\ balance = totalEscrowed

\* C3: the deposit of a request leaves escrow at most once: nothing has been
\* transferred for an Open request; for a Closed one exactly one transfer, of
\* the original deposit, to the seller of the finalized submission when that
\* was approved and to the buyer otherwise (cancellation, rejection).
C3_DepositLeavesOnce ==
  \A rid \in Created :
    LET r == requests[rid]
        s == Sub(r.finalizedSubmissionId)
    IN IF r.status = "OPEN" THEN payouts[rid] = <<>>
       ELSE /\ Len(payouts[rid]) = 1
            /\ payouts[rid][1].amount = deposited[rid]
            /\ deposited[rid] > 0
            /\ payouts[rid][1].to =
                 IF s.id # 0 /\ s.status \in {"APPROVED", "PAID"}
                   THEN s.seller ELSE r.buyer

\* Both requests Closed, one paid to a seller who is not its buyer, the other
\* returned to its buyer.
C3_Witness ==
  /\ ~InFlight
  /\ \E r1, r2 \in Created :
       /\ requests[r1].status = "CLOSED" /\ requests[r2].status = "CLOSED"
       /\ payouts[r1][1].to # requests[r1].buyer
       /\ payouts[r2][1].to = requests[r2].buyer

\* C4: a submission is finalized at most once: it occurs in the finalization
\* histories as often as it is qualityChecked (0 or 1 times), and once it is
\* qualityChecked every verifySubmission on it, by any caller with any verdict,
\* reverts: with an InvalidState reason between operations, by the reentrancy
\* guard while a transfer is in flight.
C4_FinalizedAtMostOnce ==
  \A sid \in Submitted :
    /\ TimesFinalized(sid, Addr) = IF submissions[sid].qualityChecked THEN 1 ELSE 0
    /\ submissions[sid].qualityChecked =>
         \A sender \in Addr, approved \in BOOLEAN :
           ErrorKind(verifySubmissionCheck(sender, sid, approved)) =
             IF InFlight THEN "Reentrancy" ELSE "InvalidState"

\* Between operations, a finalized (Paid) submission whose verifier is still
\* the configured one and an account that is not.
C4_Witness ==
  /\ ~InFlight
  /\ \E sid \in Submitted :
       /\ submissions[sid].status = "PAID"
       /\ qualityVerifier \in Addr
       /\ verifierHistory[qualityVerifier] = <<sid>>
       /\ \E other \in Addr : other # qualityVerifier /\ other # submissions[sid].model

\* The request as of the last completed operation: a transfer in flight has
\* not completed, and a refusal returns the request to the frame's snapshot.
CommittedReq(rid) ==
  IF InFlight THEN frames[1].snap.requests[rid] ELSE requests[rid]

SubmissionsOf(rid) == {sid \in Submitted : submissions[sid].requestId = rid}

C5_NoCallSucceeds ==
  \A rid \in Created :
    requests[rid].status = "CLOSED" =>
      /\ \A sender \in Addr : submitDatasetCheck(sender, rid) # "ok"
      /\ \A sid \in SubmissionsOf(rid), sender \in Addr, approved \in BOOLEAN :
           verifySubmissionCheck(sender, sid, approved) # "ok"

C5_NoStepTouches ==
  \A rid \in Created :
    CommittedReq(rid).status = "CLOSED" =>
      /\ SubmissionsOf(rid)' = SubmissionsOf(rid)
      /\ \A sid \in SubmissionsOf(rid) : submissions'[sid] = submissions[sid]

\* C5: once a request is Closed, every submitDataset targeting it and every
\* verifySubmission of one of its submissions reverts, for every caller and
\* every administrative setting, and no step adds a submission to it or
\* changes one of its submissions.
C5_ClosedAcceptsNothing == []C5_NoCallSucceeds /\ [][C5_NoStepTouches]_vars

\* Between operations, a cancelled request with a Pending submission whose
\* model is the configured verifier.
C5_Witness ==
  /\ ~InFlight
  /\ \E sid \in Submitted :
       /\ requests[submissions[sid].requestId].status = "CLOSED"
       /\ submissions[sid].status = "PENDING"
       /\ qualityVerifier \in Addr

\* The step in which the transfer of an approved / a rejected verification
\* returns with success.
ApprovalCompletes == transferSucceeds /\ Top.op = "verifySubmission" /\ Top.approved
RejectionCompletes == transferSucceeds /\ Top.op = "verifySubmission" /\ ~Top.approved

C6_Step ==
  ApprovalCompletes =>
    LET pre == Top.snap
        s == pre.submissions[Top.sid]
        r == pre.requests[s.requestId]
    IN /\ r.status = "OPEN" /\ r.budget > 0
       /\ wallet'[s.seller] = pre.wallet[s.seller] + r.budget
       /\ \A a \in Addr \ {s.seller} : wallet'[a] = pre.wallet[a]
       /\ balance' = pre.balance - r.budget
       /\ requests'[s.requestId].budget = 0
       /\ requests'[s.requestId].status = "CLOSED"
       /\ submissions'[Top.sid].status = "PAID"

\* C6: when verifySubmission with approved = true succeeds, the seller's
\* balance is its balance before the call plus the request's budget before
\* the call (no other account gains), the budget is 0, the request Closed and
\* the submission Paid.
C6_ApprovalPaysSeller == [][C6_Step]_vars

\* Two Paid submissions: the seller of one is the buyer of its request, the
\* owner and the configured verifier; the seller of the other is none of them.
C6_Witness ==
  /\ ~InFlight
  /\ \E s1, s2 \in Submitted :
       /\ submissions[s1].status = "PAID" /\ submissions[s2].status = "PAID"
       /\ submissions[s1].seller = requests[submissions[s1].requestId].buyer
       /\ submissions[s1].seller = owner
       /\ submissions[s1].seller = qualityVerifier
       /\ submissions[s2].seller # requests[submissions[s2].requestId].buyer
       /\ submissions[s2].seller # owner
       /\ submissions[s2].seller # qualityVerifier

C7_Step ==
  RejectionCompletes =>
    LET pre == Top.snap
        s == pre.submissions[Top.sid]
        r == pre.requests[s.requestId]
    IN /\ r.status = "OPEN" /\ r.budget > 0
       /\ wallet'[r.buyer] = pre.wallet[r.buyer] + r.budget
       /\ \A a \in Addr \ {r.buyer} : wallet'[a] = pre.wallet[a]
       /\ balance' = pre.balance - r.budget
       /\ requests'[s.requestId].budget = 0
       /\ requests'[s.requestId].status = "CLOSED"
       /\ submissions'[Top.sid].status = "REFUNDED"

\* C7: when verifySubmission with approved = false succeeds, the buyer's
\* balance is its balance before the call plus the request's budget before
\* the call, no other account (the seller included) gains, the request is
\* Closed with budget 0 and the submission Refunded.
C7_RejectionRefundsBuyer == [][C7_Step]_vars

\* A Refunded submission whose seller is not the buyer.
C7_Witness ==
  /\ ~InFlight
  /\ \E sid \in Submitted :
       /\ submissions[sid].status = "REFUNDED"
       /\ submissions[sid].seller # requests[submissions[sid].requestId].buyer
       /\ wallet[requests[submissions[sid].requestId].buyer] = InitBal

C8_Step ==
  (transferFails /\ Top.op = "verifySubmission") =>
    /\ ErrorKind(sendFailure(Top)) =
         IF Top.approved THEN "PayoutFailed" ELSE "RefundFailed"
    /\ Snapshot' = Top.snap
    /\ frames' = SubSeq(frames, 1, Len(frames) - 1)
    /\ ~submissions'[Top.sid].qualityChecked
    /\ submissions'[Top.sid].status = "PENDING"
    /\ requests'[Top.rid].status = "OPEN"
    /\ requests'[Top.rid].budget = deposited[Top.rid]
    /\ requests'[Top.rid].finalizedSubmissionId = 0
    /\ \A f \in {Top} :
         (verifySubmissionCheck(f.sender, f.sid, f.approved))' = "ok"

\* C8: when the recipient refuses the transfer of verifySubmission, the call
\* fails as PayoutFailed (approval) or RefundFailed (rejection) and storage,
\* balances and histories are those of before the call: the submission is
\* Pending and unchecked, the request Open with its budget and no
\* finalization record, and the same call passes every check again.
C8_RefusedTransferUndoesAll == [][C8_Step]_vars

\* A verification in flight whose recipient, being the owner, has changed an
\* administrative setting from inside the transfer: a refusal now has the
\* bookkeeping and that change to undo.
C8_Witness ==
  /\ InFlight /\ Top.op = "verifySubmission"
  /\ submissions[Top.sid].qualityChecked
  /\ totalEscrowed # Top.snap.totalEscrowed
  /\ <<owner, qualityVerifier, whitelistEnabled, allowModelSelfVerify>> #
       <<Top.snap.owner, Top.snap.qualityVerifier, Top.snap.whitelistEnabled,
         Top.snap.allowModelSelfVerify>>

\* C9 (as claimed): while a transfer is in flight, no call of the recipient
\* into the contract changes its storage or balances: every state-mutating
\* function, the administrative setters included, is rejected.
C9_ReentryChangesNothing ==
  [][(InFlight /\ frames' = frames) =>
       UNCHANGED <<adminVars, requestVars, submissionVars, fundVars, locked>>]_vars

C10_BookkeepingDone ==
  (InFlight /\ Top.op \in {"cancelRequest", "verifySubmission"}) =>
    LET pre == Top.snap
        r == requests[Top.rid]
    IN /\ pre.requests[Top.rid].status = "OPEN"
       /\ Top.amount = pre.requests[Top.rid].budget
       /\ r.status = "CLOSED" /\ r.budget = 0
       /\ totalEscrowed = pre.totalEscrowed - Top.amount
       /\ balance = pre.balance - Top.amount
       /\ Top.op = "verifySubmission" =>
            /\ submissions[Top.sid].qualityChecked
            /\ ~pre.submissions[Top.sid].qualityChecked
            /\ submissions[Top.sid].status =
                 IF Top.approved THEN "APPROVED" ELSE "REJECTED"
            /\ verifierHistory[Top.sender] =
                 Append(pre.verifierHistory[Top.sender], Top.sid)
            /\ r.finalizedSubmissionId = Top.sid
            /\ r.qualityScore \in ScoreInputs
            /\ r.qualityReportCid \in CidInputs

C10_OnlyStatusAfter ==
  transferSucceeds =>
    /\ UNCHANGED <<adminVars, requestVars, fundVars, submissionCounter,
                   sellerSubmissions, verifierHistory, hasSubmittedForRequest>>
    /\ submissions' =
         IF Top.op = "verifySubmission"
           THEN [submissions EXCEPT ![Top.sid].status =
                   IF submissions[Top.sid].status = "APPROVED" THEN "PAID"
                   ELSE "REFUNDED"]
           ELSE submissions

\* C10: in cancelRequest and in both branches of verifySubmission the state
\* the recipient sees during the transfer has every bookkeeping write done
\* (request Closed with budget 0, totalEscrowed decremented, and for a
\* verification qualityChecked set, the history appended, the finalization
\* recorded), and the return of the transfer writes only the submission's
\* status, Approved to Paid or Rejected to Refunded.
C10_MutateBeforeTransfer == []C10_BookkeepingDone /\ [][C10_OnlyStatusAfter]_vars

\* A rejection in flight: the buyer is being refunded and sees the request
\* Closed and the submission Rejected.
C10_Witness ==
  /\ InFlight /\ Top.op = "verifySubmission" /\ ~Top.approved
  /\ submissions[Top.sid].status = "REJECTED"
  /\ requests[Top.rid].status = "CLOSED"

\* A submission that passes every check of verifySubmission that precedes
\* the authorization: it exists and is unchecked, its request exists and is
\* Open, and no transfer is in flight.
Verifiable(sid) ==
  /\ ~InFlight
  /\ Sub(sid).id # 0 /\ ~Sub(sid).qualityChecked
  /\ Req(Sub(sid).requestId).id # 0 /\ Req(Sub(sid).requestId).status = "OPEN"

\* C11: the lock is held exactly while a transfer of a guarded function is
\* in flight (at most one is), and from every such state both ends of the
\* transfer, its success and its refusal, can be taken and free the lock:
\* between operations the lock is always free.
C11_LockReleasedOnEveryExit ==
  /\ locked = (IF InFlight THEN 2 ELSE 1)
  /\ Len(frames) <= 1
  /\ InFlight => (ENABLED transferSucceeds) /\ (ENABLED transferFails)

\* Between operations with the lock free, after a cancellation and a
\* verification have both completed.
C11_Witness ==
  /\ ~InFlight /\ locked = 1
  /\ \E rid \in Created : requests[rid].status = "CLOSED"
                           /\ requests[rid].finalizedSubmissionId = 0
  /\ \E sid \in Submitted : submissions[sid].status \in {"PAID", "REFUNDED"}

\* C12 (as claimed): for a submission that passes the earlier checks, the
\* authorization of verifySubmission passes if and only if the caller is the
\* configured verifier, or is the submission's model while self-verify is
\* allowed and the registry is not enforced or lists the caller; every other
\* caller is rejected as Unauthorized.
C12_AuthorizationIff ==
  \A sid \in Submitted, sender \in Addr, approved \in BOOLEAN :
    Verifiable(sid) =>
      LET allowed ==
            \/ sender = qualityVerifier
            \/ /\ sender = submissions[sid].model
               /\ allowModelSelfVerify
               /\ (~modelRegistryEnabled \/ sender \in modelRegistry)
          kind == ErrorKind(verifySubmissionCheck(sender, sid, approved))
      IN IF allowed THEN kind # "Unauthorized" ELSE kind = "Unauthorized"

C13_GateHolds ==
  \A sid \in Submitted, approved \in BOOLEAN :
    (~allowModelSelfVerify /\ submissions[sid].status = "PENDING") =>
      LET e == verifySubmissionCheck(submissions[sid].model, sid, approved)
      IN /\ e # "ok"
         /\ Verifiable(sid) => ErrorKind(e) = "Unauthorized"

C13_NoStepByModel ==
  \A sid \in Submitted :
    (/\ ~allowModelSelfVerify
     /\ submissions[sid].status = "PENDING"
     /\ submissions'[sid] # submissions[sid]) =>
      /\ frames' # <<>>
      /\ frames'[Len(frames')].sender # submissions[sid].model

\* C13: while allowModelSelfVerify is false, verifySubmission called by the
\* model of a Pending submission reverts, whatever modelRegistryEnabled and
\* the registry are (as Unauthorized when the checks before the authorization
\* pass), and no step in which that submission changes is a call by its model.
C13_SelfVerifyGated == []C13_GateHolds /\ [][C13_NoStepByModel]_vars

\* Self-verify off, the registry enforced and listing the model of a
\* submission that is Pending on an Open request; the model is not the
\* configured verifier.
C13_Witness ==
  /\ ~allowModelSelfVerify /\ modelRegistryEnabled
  /\ \E sid \in Submitted :
       /\ Verifiable(sid)
       /\ submissions[sid].model \in modelRegistry
       /\ submissions[sid].model # qualityVerifier

\* C14 (as claimed): in the default deployment (the deployer owns the
\* contract and is the verifier, every setting as constructed) the verifier
\* can approve the submission it made itself with itself as the model.
C14_VerifierSellerCanFinalize ==
  \A sid \in Submitted :
    (/\ Verifiable(sid)
     /\ owner = Deployer /\ qualityVerifier = Deployer
     /\ ~allowModelSelfVerify /\ ~modelRegistryEnabled /\ ~whitelistEnabled
     /\ submissions[sid].seller = qualityVerifier
     /\ submissions[sid].model = submissions[sid].seller) =>
      verifySubmissionCheck(qualityVerifier, sid, TRUE) = "ok"

\* The step makes an external call; the frame of that call.
Pushes == Len(frames') = Len(frames) + 1
Pushed == frames'[Len(frames')]

C15_FirstFailureReported ==
  \A sender \in Addr, sid \in 0..MaxSubmissions, approved \in BOOLEAN :
    ~InFlight =>
      LET s == Sub(sid)
          r == Req(s.requestId)
          kind == ErrorKind(verifySubmissionCheck(sender, sid, approved))
      IN IF s.id = 0 THEN kind = "NotFound"
         ELSE IF s.qualityChecked THEN kind = "InvalidState"
         ELSE IF r.id = 0 THEN kind = "NotFound"
         ELSE IF r.status # "OPEN" THEN kind = "InvalidState"
         ELSE /\ kind \notin {"NotFound", "InvalidState"}
              /\ (sender # qualityVerifier /\ sender # s.model) =>
                   kind = "Unauthorized"

C15_ChangeOnlyWhenAllPass ==
  \A sid \in SubmissionIds :
    (submissions[sid].id # 0 /\ submissions'[sid] # submissions[sid]
       /\ ~submissions[sid].qualityChecked) =>
      /\ Verifiable(sid)
      /\ Pushes /\ frames' = Append(frames, Pushed)
      /\ Pushed.op = "verifySubmission" /\ Pushed.sid = sid
      /\ verifySubmissionCheck(Pushed.sender, sid, Pushed.approved) = "ok"

\* C15: the error of verifySubmission is that of the first failing check in
\* the order submission exists, not yet checked, request exists, request
\* Open, caller authorized: whoever calls gets NotFound for a missing
\* submission and InvalidState for a checked one or one of a Closed request,
\* and a caller that is neither verifier nor model gets Unauthorized only
\* when those pass; a submission changes only in a call that passes them all.
C15_ChecksInOrder == []C15_FirstFailureReported /\ [][C15_ChangeOnlyWhenAllPass]_vars

\* Between operations: a checked submission, a Pending one of a Closed
\* request, and an account that is neither the verifier nor the model of
\* either.
C15_Witness ==
  /\ ~InFlight
  /\ \E s1, s2 \in Submitted, other \in Addr :
       /\ submissions[s1].qualityChecked
       /\ ~submissions[s2].qualityChecked
       /\ requests[submissions[s2].requestId].status = "CLOSED"
       /\ other # qualityVerifier
       /\ other # submissions[s1].model /\ other # submissions[s2].model

CancelCompletes == transferSucceeds /\ Top.op = "cancelRequest"

C16_Step ==
  CancelCompletes =>
    LET pre == Top.snap
        rid == Top.rid
        r == pre.requests[rid]
    IN /\ r.id # 0 /\ r.status = "OPEN" /\ Top.sender = r.buyer
       /\ r.budget = deposited[rid]
       /\ requests'[rid] = [r EXCEPT !.status = "CLOSED", !.budget = 0]
       /\ \A other \in RequestIds \ {rid} : requests'[other] = pre.requests[other]
       /\ totalEscrowed' = pre.totalEscrowed - deposited[rid]
       /\ balance' = pre.balance - deposited[rid]
       /\ wallet'[r.buyer] = pre.wallet[r.buyer] + deposited[rid]
       /\ \A a \in Addr \ {r.buyer} : wallet'[a] = pre.wallet[a]
       /\ submissions' = pre.submissions
       /\ submissionCounter' = pre.submissionCounter

\* C16: when cancelRequest succeeds, its caller was the buyer of a request
\* that was Open; the request is Closed with budget 0 and otherwise as
\* before, totalEscrowed and the contract's balance are lower by the deposit,
\* the buyer's balance is higher by the deposit, and no submission changed.
C16_CancelRefundsDeposit == [][C16_Step]_vars

\* A cancelled request of deposit 2 that had a submission, which is still
\* Pending; the buyer has its deposit back.
C16_Witness ==
  /\ ~InFlight
  /\ \E rid \in Created, sid \in Submitted :
       /\ requests[rid].status = "CLOSED" /\ requests[rid].finalizedSubmissionId = 0
       /\ deposited[rid] = 2
       /\ payouts[rid] = <<[to |-> requests[rid].buyer, amount |-> 2]>>
       /\ wallet[requests[rid].buyer] = InitBal
       /\ submissions[sid].requestId = rid /\ submissions[sid].status = "PENDING"

C17_ErrorOfCancel ==
  \A sender \in Addr, rid \in 0..MaxRequests :
    ~InFlight =>
      LET r == Req(rid)
          e == cancelRequestCheck(sender, rid)
      IN IF r.id = 0 THEN ErrorKind(e) = "NotFound"
         ELSE IF sender # r.buyer THEN ErrorKind(e) = "Unauthorized"
         ELSE IF r.status = "CLOSED" THEN e = "Request not open"
         ELSE e = "ok"

C17_RefusedRefund ==
  (transferFails /\ Top.op = "cancelRequest") =>
    /\ ErrorKind(sendFailure(Top)) = "RefundFailed"
    /\ Snapshot' = Top.snap
    /\ requests'[Top.rid].status = "OPEN"
    /\ requests'[Top.rid].budget = deposited[Top.rid]
    /\ requests'[Top.rid].budget > 0

\* C17: cancelRequest reverts as NotFound for an id that was never created,
\* as Unauthorized for every caller that is not the request's buyer (the
\* owner and the verifier included, whatever the status), and with "Request
\* not open" for the buyer of a Closed request; when the buyer refuses the
\* refund the state is that of before the call, the request Open with its
\* budget.
C17_CancelFailures == []C17_ErrorOfCancel /\ [][C17_RefusedRefund]_vars

\* Between operations: a Closed request and an Open request whose buyer is neither the owner nor the verifier.
C17_Witness ==
  /\ ~InFlight
  /\ \E r1, r2 \in Created :
       /\ requests[r1].status = "CLOSED"
       /\ requests[r2].status = "OPEN"
       /\ requests[r2].buyer # owner /\ requests[r2].buyer # qualityVerifier

C18_StepThatCloses ==
  \A rid \in RequestIds :
    (requests[rid].id # 0 /\ requests[rid].status = "OPEN"
       /\ requests'[rid].status = "CLOSED") =>
      /\ Pushes /\ frames' = Append(frames, Pushed)
      /\ Pushed.rid = rid
      /\ \/ Pushed.op = "cancelRequest" /\ Pushed.sender = requests[rid].buyer
         \/ /\ Pushed.op = "verifySubmission"
            /\ Sub(Pushed.sid).id # 0 /\ Sub(Pushed.sid).requestId = rid

C18_ClosureThatStays ==
  \A rid \in RequestIds :
    (CommittedReq(rid).id # 0 /\ CommittedReq(rid).status = "OPEN"
       /\ CommittedReq(rid)'.status = "CLOSED") =>
      /\ transferSucceeds
      /\ Top.rid = rid
      /\ Top.op \in {"cancelRequest", "verifySubmission"}

\* C18: a step that takes a request from Open to Closed is the call of
\* cancelRequest by its buyer or of verifySubmission on one of its
\* submissions, and the closure outlasts the call only when that call's
\* transfer succeeds: no setter, submission, withdrawal, plain transfer or
\* refused transfer closes a request.
C18_OnlyCancelOrVerdictCloses ==
  [][C18_StepThatCloses /\ C18_ClosureThatStays]_vars

\* One request closed by its buyer's cancellation, the other by a verdict,
\* after an administrative call or a plain transfer.
C18_Witness ==
  /\ ~InFlight /\ auxCalls = 1
  /\ \E r1, r2 \in Created :
       /\ requests[r1].status = "CLOSED" /\ requests[r1].finalizedSubmissionId = 0
       /\ requests[r2].status = "CLOSED" /\ requests[r2].finalizedSubmissionId # 0

C19_WhoAndHowMuch ==
  \A sender \in Addr, amount \in 0..(balance + 1) :
    LET e == emergencyWithdrawCheck(sender, amount)
    IN /\ e = "ok" => sender = owner /\ amount <= balance - totalEscrowed
       /\ amount > balance - totalEscrowed => e # "ok"
       /\ sender # owner => ErrorKind(e) = "Unauthorized"

C19_Step ==
  /\ (Pushes /\ frames' = Append(frames, Pushed) /\ Pushed.op = "emergencyWithdraw") =>
       /\ Pushed.sender = owner
       /\ Pushed.amount <= balance - totalEscrowed
       /\ balance' = balance - Pushed.amount
       /\ balance' >= totalEscrowed'
       /\ totalEscrowed' = totalEscrowed /\ requests' = requests
  /\ (InFlight /\ frames' # frames /\ Top.op = "emergencyWithdraw") =>
       /\ totalEscrowed' = Top.snap.totalEscrowed
       /\ requests' = Top.snap.requests
       /\ transferSucceeds => balance' = Top.snap.balance - Top.amount
       /\ transferFails => balance' = Top.snap.balance

\* C19: emergencyWithdraw passes its checks only for the owner and only for
\* an amount of at most balance - totalEscrowed; a larger amount reverts, so
\* nothing is transferred; from its call to its return totalEscrowed and
\* every request are unchanged and the balance stays at least totalEscrowed.
C19_WithdrawOnlySurplus == []C19_WhoAndHowMuch /\ [][C19_Step]_vars

\* The owner has withdrawn the surplus while a request is Open: no request
\* has paid out, an account holds more than it started with, and the
\* balance equals the escrow.
C19_Witness ==
  /\ ~InFlight
  /\ totalEscrowed > 0 /\ balance = totalEscrowed
  /\ \A rid \in RequestIds : payouts[rid] = <<>>
  /\ \E a \in Addr : wallet[a] > InitBal

\* The finalization record of a request.
Finalization(r) == <<r.finalizedSubmissionId, r.qualityScore, r.qualityReportCid>>

C20_RecordOfVerdict ==
  /\ \A sid \in Submitted :
       submissions[sid].qualityChecked =>
         requests[submissions[sid].requestId].finalizedSubmissionId = sid
  /\ \A rid \in RequestIds :
       CommittedReq(rid).finalizedSubmissionId # 0 =>
         /\ CommittedReq(rid).status = "CLOSED"
         /\ Finalization(requests[rid]) = Finalization(CommittedReq(rid))

C20_RecordKept ==
  \A rid \in RequestIds :
    CommittedReq(rid).finalizedSubmissionId # 0 =>
      /\ Finalization(requests'[rid]) = Finalization(CommittedReq(rid))
      /\ Finalization(CommittedReq(rid)') = Finalization(CommittedReq(rid))

\* C20: the finalization record of a request (finalizedSubmissionId,
\* qualityScore, qualityReportCid) names the submission whose verdict closed
\* it, and once a completed verifySubmission has set it, it has the same
\* three values in every later state, the states during later transfers
\* included.
C20_FinalizationWrittenOnce == []C20_RecordOfVerdict /\ [][C20_RecordKept]_vars

\* A request finalized by one of its two submissions; the other is still
\* Pending, and a transfer for another request is in flight.
C20_Witness ==
  /\ InFlight
  /\ \E rid \in Created, s1, s2 \in Submitted :
       /\ rid # Top.rid
       /\ CommittedReq(rid).finalizedSubmissionId = s1
       /\ s2 # s1 /\ submissions[s2].requestId = rid
       /\ submissions[s2].status = "PENDING"

\* The submission as of the last completed operation.
CommittedSub(sid) ==
  IF InFlight THEN frames[1].snap.submissions[sid] ELSE submissions[sid]

C21_StatusAtRest ==
  \A sid \in Submitted :
    /\ CommittedSub(sid).status \in {"PENDING", "PAID", "REFUNDED"}
    /\ CommittedSub(sid).qualityChecked <=>
         CommittedSub(sid).status \in {"PAID", "REFUNDED"}
    /\ submissions[sid].status \in {"APPROVED", "REJECTED"} =>
         InFlight /\ Top.op = "verifySubmission" /\ Top.sid = sid

C21_StatusStep ==
  \A sid \in SubmissionIds :
    submissions[sid].id # 0 =>
      /\ \/ submissions'[sid].status = submissions[sid].status
         \/ /\ <<submissions[sid].status, submissions'[sid].status>> \in
                 {<<"PENDING", "APPROVED">>, <<"PENDING", "REJECTED">>}
            /\ Pushes
         \/ /\ <<submissions[sid].status, submissions'[sid].status>> \in
                 {<<"APPROVED", "PAID">>, <<"REJECTED", "REFUNDED">>}
            /\ transferSucceeds
         \/ /\ <<submissions[sid].status, submissions'[sid].status>> \in
                 {<<"APPROVED", "PENDING">>, <<"REJECTED", "PENDING">>}
            /\ transferFails
      /\ CommittedSub(sid).status \in {"PAID", "REFUNDED"} =>
           /\ submissions'[sid] = CommittedSub(sid)
           /\ CommittedSub(sid)' = CommittedSub(sid)
      /\ CommittedSub(sid)'.status = "PENDING" =>
           CommittedSub(sid).status = "PENDING"

\* C21: the status of a submission moves Pending to Approved or Rejected
\* when verifySubmission makes its transfer, on to Paid or Refunded when the
\* transfer succeeds and back to Pending only when that same transfer is
\* refused; after every completed operation it is Pending, Paid or
\* Refunded, with qualityChecked set exactly for Paid and Refunded, and a
\* Paid or Refunded submission never changes again.
C21_SubmissionLifecycle == []C21_StatusAtRest /\ [][C21_StatusStep]_vars

\* Between operations, one submission Paid and one Refunded.
C21_Witness ==
  /\ ~InFlight
  /\ \E s1, s2 \in Submitted :
       submissions[s1].status = "PAID" /\ submissions[s2].status = "REFUNDED"

C22_ClosedAtRest ==
  \A rid \in Created :
    CommittedReq(rid).status = "CLOSED" => requests[rid] = CommittedReq(rid)

C22_ClosedStep ==
  \A rid \in RequestIds :
    requests[rid].id # 0 =>
      /\ (requests[rid].status = "CLOSED" /\ requests'[rid].status = "OPEN") =>
           transferFails /\ Top.rid = rid
      /\ CommittedReq(rid).status = "CLOSED" =>
           /\ requests'[rid] = CommittedReq(rid)
           /\ CommittedReq(rid)' = CommittedReq(rid)

\* C22: a request goes from Closed to Open only when the transfer of the
\* call that closed it is refused (the call is undone); once a completed
\* operation has closed it, every field of the request (buyer, budget,
\* formatsMask, status, finalization record) is the same in every later
\* state.
C22_ClosedIsImmutable == []C22_ClosedAtRest /\ [][C22_ClosedStep]_vars

\* A cancelled request while the verification of a submission of the other
\* request is in flight.
C22_Witness ==
  /\ InFlight /\ Top.op = "verifySubmission"
  /\ \E rid \in Created :
       /\ rid # Top.rid
       /\ CommittedReq(rid).status = "CLOSED"
       /\ CommittedReq(rid).finalizedSubmissionId = 0

C23_OnePerPair ==
  /\ \A s1, s2 \in Submitted :
       (submissions[s1].requestId = submissions[s2].requestId
          /\ submissions[s1].seller = submissions[s2].seller) => s1 = s2
  /\ hasSubmittedForRequest =
       {<<submissions[sid].requestId, submissions[sid].seller>> : sid \in Submitted}
  /\ \A sid \in Submitted :
       LET s == submissions[sid]
           e == submitDatasetCheck(s.seller, s.requestId)
       IN /\ e # "ok"
          /\ (/\ ~InFlight
              /\ requests[s.requestId].status = "OPEN"
              /\ whitelistEnabled => s.seller \in sellerWhitelist) =>
               ErrorKind(e) = "DuplicateSubmission"

C23_NewPairOnly ==
  (submissionCounter' # submissionCounter) =>
    LET sid == submissionCounter + 1
        new == submissions'[sid]
    IN /\ submissionCounter' = sid
       /\ new.id = sid
       /\ <<new.requestId, new.seller>> \notin hasSubmittedForRequest
       /\ \A old \in Submitted : submissions'[old] = submissions[old]
       /\ sellerSubmissions' =
            [sellerSubmissions EXCEPT ![new.seller] = Append(@, sid)]

\* C23: no two submissions have the same request and seller: submitDataset
\* by the seller of an existing submission for the same request reverts (as
\* DuplicateSubmission when the checks before it pass), and the only step
\* that allocates a submission id is one for a new (request, seller) pair,
\* which leaves the existing submissions unchanged.
C23_OneSubmissionPerSeller == []C23_OnePerPair /\ [][C23_NewPairOnly]_vars

\* Between operations, a seller with a submission on an Open request while
\* a further submission id is still to be allocated.
C23_Witness ==
  /\ ~InFlight
  /\ submissionCounter < MaxSubmissions
  /\ \E sid \in Submitted :
       /\ requests[submissions[sid].requestId].status = "OPEN"
       /\ whitelistEnabled => submissions[sid].seller \in sellerWhitelist

C24_ErrorOfSubmit ==
  \A sender \in Addr, rid \in 0..MaxRequests :
    ~InFlight =>
      submitDatasetCheck(sender, rid) =
        IF Req(rid).id = 0 THEN "Request not found"
        ELSE IF Req(rid).status # "OPEN" THEN "Request not open"
        ELSE IF whitelistEnabled /\ sender \notin sellerWhitelist
               THEN "Seller not whitelisted"
        ELSE IF \E sid \in Submitted : /\ submissions[sid].requestId = rid
                                       /\ submissions[sid].seller = sender
               THEN "Already submitted for this request"
        ELSE "ok"

C24_SubmitStep ==
  (submissionCounter' # submissionCounter) =>
    LET new == submissions'[submissionCounter + 1]
    IN /\ ~InFlight
       /\ Req(new.requestId).id # 0 /\ Req(new.requestId).status = "OPEN"
       /\ whitelistEnabled => new.seller \in sellerWhitelist
       /\ \A sid \in Submitted : ~(/\ submissions[sid].requestId = new.requestId
                                    /\ submissions[sid].seller = new.seller)
       /\ submitDatasetCheck(new.seller, new.requestId) = "ok"

\* C24: submitDataset reverts with the reason of the first check that fails
\* in the order request exists ("Request not found"), request Open ("Request
\* not open"), caller whitelisted when whitelistEnabled ("Seller not
\* whitelisted"; the whitelist is not read when the toggle is off), caller
\* has no submission for the request ("Already submitted for this request"),
\* and a submission is added only by a call that passes all four.
C24_SubmitChecksInOrder == []C24_ErrorOfSubmit /\ [][C24_SubmitStep]_vars

\* The whitelist enforced and listing one account only, which has a
\* submission on an Open request; the other request is Closed.
C24_Witness ==
  /\ ~InFlight /\ whitelistEnabled
  /\ \E a \in Addr, sid \in Submitted, rid \in Created :
       /\ sellerWhitelist = {a}
       /\ submissions[sid].seller = a
       /\ requests[submissions[sid].requestId].status = "OPEN"
       /\ requests[rid].status = "CLOSED"

C25_ErrorOfCreate ==
  \A value \in 0..MaxDeposit, mask \in MaskInputs :
    ~InFlight =>
      LET e == createRequestCheck(value, mask)
      IN IF value = 0 \/ mask = 0 THEN ErrorKind(e) = "InvalidInput"
         ELSE e = "ok"

C25_CreateStep ==
  /\ \A rid \in RequestIds :
       requests'[rid].id # requests[rid].id => requestCounter' # requestCounter
  /\ (requestCounter' # requestCounter) =>
       LET rid == requestCounter + 1
           new == requests'[rid]
       IN /\ requestCounter' = rid
          /\ requests[rid] = ZeroRequest
          /\ new = [ZeroRequest EXCEPT !.id = rid, !.buyer = new.buyer,
                       !.budget = new.budget, !.formatsMask = new.formatsMask]
          /\ new.status = "OPEN" /\ new.buyer \in Addr
          /\ new.budget > 0 /\ new.formatsMask # 0
          /\ deposited'[rid] = new.budget
          /\ \A other \in RequestIds \ {rid} : requests'[other] = requests[other]
          /\ totalEscrowed' = totalEscrowed + new.budget
          /\ balance' = balance + new.budget
          /\ wallet' = [wallet EXCEPT ![new.buyer] = @ - new.budget]
          /\ buyerRequests' = [buyerRequests EXCEPT ![new.buyer] = Append(@, rid)]

\* C25: createRequest reverts as InvalidInput for a deposit of 0 or a mask of
\* 0 and passes its checks otherwise; the step that allocates a request id
\* takes the next id and stores an Open request with no finalization record
\* whose budget is the positive msg.value taken from its buyer, the caller,
\* and whose mask is not 0, adds that value to totalEscrowed and to the
\* balance, appends the id to the buyer's index and leaves every other
\* request as it was; no other step creates a request.
C25_CreateRequestEffect == []C25_ErrorOfCreate /\ [][C25_CreateStep]_vars

\* Two Open requests of different buyers and different deposits.
C25_Witness ==
  /\ ~InFlight
  /\ \E r1, r2 \in Created :
       /\ requests[r1].status = "OPEN" /\ requests[r2].status = "OPEN"
       /\ requests[r1].buyer # requests[r2].buyer
       /\ requests[r1].budget = 1 /\ requests[r2].budget = 2
       /\ buyerRequests[requests[r1].buyer] = <<r1>>

C26_OwnerOnly ==
  \A sender \in Addr :
    sender # owner =>
      /\ onlyOwnerCheck(sender) = "Only owner"
      /\ \A newOwner \in Addr \cup {ZeroAddr} :
           ErrorKind(transferOwnershipCheck(sender, newOwner)) = "Unauthorized"
      /\ \A amount \in 0..balance :
           ErrorKind(emergencyWithdrawCheck(sender, amount)) = "Unauthorized"

C26_SetterStep ==
  (frames' = frames /\ adminVars' # adminVars) =>
    /\ owner \in Callers
    /\ UNCHANGED <<requestVars, submissionVars, fundVars, locked>>
    /\ (qualityVerifier' # qualityVerifier) =>
         \A old \in {qualityVerifier}, new \in {qualityVerifier'},
            sid \in Submitted, approved \in BOOLEAN :
           /\ (verifySubmissionCheck(old, sid, approved))' = "ok" =>
                old = submissions[sid].model /\ allowModelSelfVerify'
           /\ (Verifiable(sid)' /\ old # submissions[sid].model) =>
                ErrorKind((verifySubmissionCheck(old, sid, approved))')
                  = "Unauthorized"
           /\ (Verifiable(sid)' /\ new # submissions[sid].model) =>
                (verifySubmissionCheck(new, sid, approved))' = "ok"
    /\ (owner' # owner) =>
         \A old \in {owner}, new \in {owner'} :
           /\ (onlyOwnerCheck(old))' = "Only owner"
           /\ (transferOwnershipCheck(old, old))' = "Only owner"
           /\ (emergencyWithdrawCheck(old, 0))' = "Only owner"
           /\ (onlyOwnerCheck(new))' = "ok"

VerdictPushed == Pushes /\ Pushed.op = "verifySubmission"

C27_BranchByFlag ==
  VerdictPushed =>
    LET s == submissions[Pushed.sid]
        r == requests[s.requestId]
    IN /\ Pushed.to = (IF Pushed.approved THEN s.seller ELSE r.buyer)
       /\ Pushed.amount = r.budget
       /\ wallet' = [wallet EXCEPT ![Pushed.to] = @ + r.budget]
       /\ submissions'[Pushed.sid].status =
            (IF Pushed.approved THEN "APPROVED" ELSE "REJECTED")
       /\ requests'[s.requestId].status = "CLOSED"

C27_SameForEveryScore ==
  VerdictPushed =>
    \A f \in {Pushed}, w \in {wallet'}, b \in {balance'}, te \in {totalEscrowed'},
       subs \in {submissions'}, rq \in {requests'}, score \in ScoreRange :
      ENABLED (/\ \E cid \in CidInputs :
                    verifySubmission(f.sender, f.sid, f.approved, score, cid)
               /\ wallet' = w /\ balance' = b /\ totalEscrowed' = te
               /\ submissions' = subs
               /\ requests' = [rq EXCEPT ![f.rid].qualityScore = score])

C27_PaidByFlag ==
  (transferSucceeds /\ Top.op = "verifySubmission") =>
    submissions'[Top.sid].status = (IF Top.approved THEN "PAID" ELSE "REFUNDED")

\* C27: the branch of verifySubmission is chosen by approved alone: the
\* seller is paid the budget and the submission becomes Approved, then Paid,
\* when approved is true, the buyer is refunded and it becomes Rejected,
\* then Refunded, when approved is false; and for every call that succeeds,
\* the same call with any other score succeeds from the same state with the
\* same balances, totalEscrowed, submissions and requests, the recorded score
\* apart.
C27_ScoreDoesNotDecide ==
  [][C27_BranchByFlag /\ C27_SameForEveryScore /\ C27_PaidByFlag]_vars

\* A submission Paid on a score of 0 and one Refunded on a score of 100.
C27_Witness ==
  /\ ~InFlight
  /\ \E s1, s2 \in Submitted :
       /\ submissions[s1].status = "PAID"
       /\ requests[submissions[s1].requestId].qualityScore = 0
       /\ submissions[s2].status = "REFUNDED"
       /\ requests[submissions[s2].requestId].qualityScore = 100

\* C28 (as claimed): verifySubmission moves the escrow only when approved is
\* true and the score is at least 70, and then to the seller; in every other
\* case the request stays Open, its budget held, and nobody is paid.
C28_ReleaseNeedsThreshold ==
  [][\A sid \in Submitted :
       (~submissions[sid].qualityChecked /\ submissions'[sid].qualityChecked) =>
         LET rid == submissions[sid].requestId
         IN IF Pushed.approved /\ requests'[rid].qualityScore >= 70
              THEN Pushed.to = submissions[sid].seller
              ELSE /\ requests'[rid].status = "OPEN"
                   /\ requests'[rid].budget = requests[rid].budget
                   /\ UNCHANGED <<balance, wallet>>]_vars

\* C29 (as claimed): the score in the finalization record of a request is
\* at most 100 after every completed verifySubmission.
C29_ScoreAtMost100 ==
  \A rid \in RequestIds : CommittedReq(rid).qualityScore <= 100

\* C30 (as claimed): every request that createRequest stored accepts at
\* least one of the six formats.
C30_SomeFormatAccepted ==
  \A rid \in Created : \E format \in DataFormat : requestAcceptsFormat(rid, format)

\* ------------------------------------------------------------ indices
IsPrefix(s, t) == Len(s) <= Len(t) /\ SubSeq(t, 1, Len(s)) = s

\* The ids a list holds, and whether it holds each of them once.
Range(s) == {s[i] : i \in DOMAIN s}
NoRepeat(s) == \A i, j \in DOMAIN s : s[i] = s[j] => i = j

\* The finalization histories as of the last completed operation.
CommittedHistory ==
  IF InFlight THEN frames[1].snap.verifierHistory ELSE verifierHistory

C31_IndicesAgree ==
  /\ \A a \in Addr :
       /\ NoRepeat(buyerRequests[a])
       /\ Range(buyerRequests[a]) = {rid \in Created : requests[rid].buyer = a}
       /\ NoRepeat(sellerSubmissions[a])
       /\ Range(sellerSubmissions[a]) =
            {sid \in Submitted : submissions[sid].seller = a}
       /\ Range(verifierHistory[a]) \subseteq Submitted
  /\ \A rid \in RequestIds, a \in Addr :
       <<rid, a>> \in hasSubmittedForRequest <=>
         \E sid \in Submitted : /\ submissions[sid].requestId = rid
                                /\ submissions[sid].seller = a
  /\ \A sid \in Submitted :
       TimesFinalized(sid, Addr) = IF submissions[sid].qualityChecked THEN 1 ELSE 0
  /\ InFlight /\ Top.op = "verifySubmission" =>
       Top.sid \in Range(verifierHistory[Top.sender])

C31_IndexStep ==
  /\ \A a \in Addr :
       /\ IsPrefix(buyerRequests[a], buyerRequests'[a])
       /\ IsPrefix(sellerSubmissions[a], sellerSubmissions'[a])
       /\ IsPrefix(CommittedHistory[a], CommittedHistory'[a])
  /\ CommittedHistory' # CommittedHistory =>
       /\ InFlight
       /\ frames' = <<>>
       /\ \A f \in {Top} :
            /\ f.op = "verifySubmission"
            /\ submissions'[f.sid].status \in {"PAID", "REFUNDED"}
            /\ CommittedHistory' =
                 [CommittedHistory EXCEPT ![f.sender] = Append(@, f.sid)]

\* C31: the indices agree with the tables. A buyer's list holds exactly the
\* ids of that buyer's requests and a seller's list exactly the ids of that
\* seller's submissions, each once; the duplicate flag of (request, seller)
\* is set exactly when such a submission exists; a submission is in the
\* finalization histories once when it is finalized and not at all
\* otherwise, in the history of the caller that finalized it; and the lists
\* only grow by appending (the histories as of the completed operations: a
\* refused transfer takes back the entry of its own verdict).
C31_IndicesAgreeWithTables == []C31_IndicesAgree /\ [][C31_IndexStep]_vars

\* Between operations, a finalized submission in some history beside a
\* submission that is still Pending.
C31_Witness ==
  /\ ~InFlight
  /\ \E s1, s2 \in Submitted, a \in Addr :
       /\ submissions[s1].status \in {"PAID", "REFUNDED"}
       /\ s1 \in Range(verifierHistory[a])
       /\ submissions[s2].status = "PENDING"
       /\ buyerRequests[requests[submissions[s2].requestId].buyer] # <<>>

\* ------------------------------------------------------------ events
\* The events that report a change of an administrative setting.
AdminEvents ==
  {"QualityVerifierUpdated", "SellerWhitelistUpdated", "ModelRegistryUpdated"}

\* A step of a call that is not the return of an external call.
DirectCall == Len(frames') = Len(frames)

\* An external call returned and its transaction went through.
ReturnedOk == InFlight /\ Len(frames') < Len(frames) /\ wallet' = wallet

C32_LifecycleEmits ==
  /\ requestCounter' # requestCounter =>
       LET r == requests'[requestCounter']
       IN events' = <<RequestCreated(r.id, r.buyer, r.budget, r.formatsMask)>>
  /\ submissionCounter' # submissionCounter =>
       LET s == submissions'[submissionCounter']
       IN events' = <<SubmissionSubmitted(s.id, s.requestId, s.seller,
                                          s.model, s.format)>>
  /\ ReturnedOk =>
       \A f \in {Top} :
         /\ f.op = "cancelRequest" =>
              events' = <<RefundIssued(f.rid, f.to, f.amount)>>
         /\ f.op = "verifySubmission" =>
              /\ Len(events') = 2
              /\ events'[1] =
                   SubmissionVerified(f.sid, f.rid, f.approved,
                                      requests'[f.rid].qualityScore,
                                      requests'[f.rid].qualityReportCid)
              /\ events'[2] =
                   IF submissions'[f.sid].status = "PAID"
                     THEN PaymentReleased(f.sid, f.to, f.amount)
                     ELSE RefundIssued(f.rid, f.to, f.amount)

C32_SettingsWithEventEmit ==
  DirectCall =>
    /\ qualityVerifier' # qualityVerifier =>
         \E i \in DOMAIN events' :
           /\ events'[i].name = "QualityVerifierUpdated"
           /\ events'[i].newVerifier = qualityVerifier'
    /\ sellerWhitelist' # sellerWhitelist =>
         \E i \in DOMAIN events' :
           /\ events'[i].name = "SellerWhitelistUpdated"
           /\ events'[i].allowed <=> events'[i].seller \in sellerWhitelist'
           /\ events'[i].allowed <=> events'[i].seller \notin sellerWhitelist
    /\ modelRegistry' # modelRegistry =>
         \E i \in DOMAIN events' :
           /\ events'[i].name = "ModelRegistryUpdated"
           /\ events'[i].allowed <=> events'[i].model \in modelRegistry'
           /\ events'[i].allowed <=> events'[i].model \notin modelRegistry

C32_EverySettingEmits ==
  DirectCall /\ adminVars' # adminVars =>
    \E i \in DOMAIN events' : events'[i].name \in AdminEvents

\* C32: every successful change of state emits its event: the creation of
\* a request and of a submission, a completed cancellation, a completed
\* finalization (the finalization event, then the payout or refund event),
\* and every change of an administrative setting (verifier, whitelist
\* switch, whitelist entry, registry switch, registry entry, self-verify
\* switch, owner), whose event carries the new value.
C32_EveryChangeEmits ==
  [][C32_LifecycleEmits /\ C32_SettingsWithEventEmit
       /\ C32_EverySettingEmits]_vars

\* The part of it that concerns the lifecycle and the three settings whose
\* setter holds an emit statement.
C32_DeclaredEventsEmitted ==
  [][C32_LifecycleEmits /\ C32_SettingsWithEventEmit]_vars

\* ------------------------------------------------------------ producer model
C33_Recorded ==
  \A sid \in Submitted :
    /\ submissions[sid].seller \in Addr
    /\ submissions[sid].model \in Addr

C33_SubmitStep ==
  \A sender \in Addr, rid \in RequestIds, format \in FormatInputs,
     model \in Addr \cup {ZeroAddr} :
    submitDataset(sender, rid, format, model) =>
      LET s == submissions'[submissionCounter + 1]
      IN /\ s.seller = sender
         /\ model = ZeroAddr => s.model = sender
         /\ model # ZeroAddr => s.model = model

\* C33: the submission that submitDataset records has the caller as its
\* seller, and as its producer model the caller when the model argument is
\* the zero address and the model argument otherwise; no recorded
\* submission has the zero address as seller or model.
C33_ProducerModelDefaultsToCaller == []C33_Recorded /\ [][C33_SubmitStep]_vars

\* One submission whose model is its seller beside one whose model is
\* another account.
C33_Witness ==
  \E s1, s2 \in Submitted :
    /\ submissions[s1].model = submissions[s1].seller
    /\ submissions[s2].model # submissions[s2].seller

\* ------------------------------------------------------------ identifiers
C34_IdsInUse ==
  /\ Created = 1..requestCounter
  /\ Submitted = 1..submissionCounter
  /\ \A rid \in Created : requests[rid].id = rid
  /\ \A sid \in Submitted : submissions[sid].id = sid
  /\ Req(0).id = 0
  /\ Sub(0).id = 0
  /\ \A sender \in Addr :
       /\ cancelRequestCheck(sender, 0) # "ok"
       /\ submitDatasetCheck(sender, 0) # "ok"
       /\ \A approved \in BOOLEAN : verifySubmissionCheck(sender, 0, approved) # "ok"

C34_IdStep ==
  /\ requestCounter' # requestCounter =>
       /\ requestCounter' = requestCounter + 1
       /\ requests[requestCounter'].id = 0
       /\ requests'[requestCounter'].id = requestCounter'
       /\ \E sender \in Addr, value \in 0..MaxDeposit, mask \in MaskInputs :
            /\ createRequestCheck(value, mask) = "ok"
            /\ createRequest(sender, value, mask)
  /\ submissionCounter' # submissionCounter =>
       /\ submissionCounter' = submissionCounter + 1
       /\ submissions[submissionCounter'].id = 0
       /\ submissions'[submissionCounter'].id = submissionCounter'
       /\ \E sender \in Addr, rid \in RequestIds, format \in FormatInputs,
             model \in Addr \cup {ZeroAddr} :
            /\ submitDatasetCheck(sender, rid) = "ok"
            /\ submitDataset(sender, rid, format, model)
  /\ \A rid \in Created : requests'[rid].id = rid
  /\ \A sid \in Submitted : submissions'[sid].id = sid

\* C34: the ids in use are 1..requestCounter and 1..submissionCounter, each
\* record under its own id; a counter moves only by one, in a createRequest
\* or submitDataset whose checks pass, and the id it allocates is the new
\* value of the counter (the n-th creation gets n), so a failed call uses
\* up no id; an id once allocated stays allocated, and id 0 names no
\* record: every function given id 0 reverts.
C34_IdsCountFromOne == []C34_IdsInUse /\ [][C34_IdStep]_vars

\* Two requests and two submissions exist.
C34_Witness ==
  /\ requestCounter = 2
  /\ submissionCounter = 2
  /\ Created = {1, 2}
  /\ Submitted = {1, 2}

\* ------------------------------------------------------------ cancel against verdict
\* The Pending submissions of Open requests.
Contested ==
  {sid \in Submitted : /\ submissions[sid].status = "PENDING"
                       /\ ~submissions[sid].qualityChecked
                       /\ requests[submissions[sid].requestId].status = "OPEN"}

C35_EitherCanGoFirst ==
  ~InFlight =>
    \A sid \in Contested :
      LET rid == submissions[sid].requestId
      IN /\ payouts[rid] = <<>>
         /\ cancelRequestCheck(requests[rid].buyer, rid) = "ok"
         /\ \A sender \in Addr, approved \in BOOLEAN :
              ErrorKind(verifySubmissionCheck(sender, sid, approved))
                \in {"ok", "Unauthorized"}

C35_SecondFails ==
  \A rid \in Created :
    requests[rid].status = "CLOSED" =>
      /\ Len(payouts[rid]) = 1
      /\ payouts[rid][1].amount = deposited[rid]
      /\ \A sender \in Addr :
           /\ cancelRequestCheck(sender, rid) # "ok"
           /\ ~InFlight /\ sender = requests[rid].buyer =>
                ErrorKind(cancelRequestCheck(sender, rid)) = "InvalidState"
           /\ \A sid \in SubmissionsOf(rid), approved \in BOOLEAN :
                LET e == verifySubmissionCheck(sender, sid, approved)
                IN /\ e # "ok"
                   /\ ~InFlight => ErrorKind(e) \in {"InvalidState", "Unauthorized"}
      /\ requests[rid].finalizedSubmissionId = 0 =>
           \A sid \in SubmissionsOf(rid) :
             /\ submissions[sid].status = "PENDING"
             /\ ~submissions[sid].qualityChecked

C35_OneTransferPerRequest ==
  \A rid \in RequestIds :
    payouts'[rid] # payouts[rid] =>
      \/ /\ payouts[rid] = <<>>
         /\ Len(payouts'[rid]) = 1
         /\ requests[rid].status = "OPEN"
         /\ requests'[rid].status = "CLOSED"
         /\ Pushes
         /\ frames' = Append(frames, Pushed)
         /\ Pushed.rid = rid
         /\ Pushed.op \in {"cancelRequest", "verifySubmission"}
      \/ /\ payouts'[rid] = <<>>
         /\ Len(payouts[rid]) = 1
         /\ transferFails

\* C35: for an Open request with a Pending submission, between operations
\* the buyer's cancelRequest and an authorized verifySubmission both pass
\* their checks, so whichever runs first goes through; from the moment the
\* first has closed the request the other reverts (on the state of the
\* request or submission once the first has completed), the deposit has
\* left the contract in one transfer, and a further transfer for the request
\* happens only if that one is refused and undone. A request closed by
\* cancelRequest keeps its submissions Pending and unverified: none of them
\* can be finalized afterwards.
C35_CancelAndVerdictExclude ==
  /\ []C35_EitherCanGoFirst
  /\ []C35_SecondFails
  /\ [][C35_OneTransferPerRequest]_vars

\* Between operations, one request closed by its buyer's cancellation with
\* a submission left Pending, another closed by a verdict.
C35_Witness ==
  /\ ~InFlight
  /\ \E r1, r2 \in Created :
       /\ requests[r1].status = "CLOSED"
       /\ requests[r1].finalizedSubmissionId = 0
       /\ SubmissionsOf(r1) # {}
       /\ requests[r2].status = "CLOSED"
       /\ requests[r2].finalizedSubmissionId # 0

\* ------------------------------------------------------------ one verdict per request
Checked(rid) == {sid \in SubmissionsOf(rid) : submissions[sid].qualityChecked}

C36_AtMostOneChecked ==
  \A rid \in Created :
    /\ Cardinality(Checked(rid)) <= 1
    /\ Checked(rid) \subseteq {requests[rid].finalizedSubmissionId}
    /\ Checked(rid) # {} => requests[rid].status = "CLOSED"
    /\ requests[rid].status = "CLOSED" =>
         \A sid \in SubmissionsOf(rid) \ {requests[rid].finalizedSubmissionId} :
           /\ submissions[sid].status = "PENDING"
           /\ ~submissions[sid].qualityChecked

C36_FrozenOnceClosed ==
  \A sid \in SubmissionIds :
    LET s == CommittedSub(sid)
    IN (s.id # 0 /\ CommittedReq(s.requestId).status = "CLOSED") =>
         /\ CommittedSub(sid)' = s
         /\ CommittedReq(s.requestId)'.status = "CLOSED"

\* C36: of the submissions of one request at most one is qualityChecked,
\* and it is the one the request names as finalized; the others of a Closed
\* request are Pending and unverified, and once an operation has left a
\* request Closed no later operation changes any of its submissions.
C36_OneVerdictPerRequest == []C36_AtMostOneChecked /\ [][C36_FrozenOnceClosed]_vars

\* Between operations, a request closed by a verdict on one of its two
\* submissions.
C36_Witness ==
  /\ ~InFlight
  /\ \E rid \in Created, s1, s2 \in Submitted :
       /\ requests[rid].status = "CLOSED"
       /\ submissions[s1].requestId = rid /\ submissions[s2].requestId = rid
       /\ submissions[s1].qualityChecked
       /\ submissions[s2].status = "PENDING"

\* ------------------------------------------------------------ budget
\* C37: an Open request holds its original deposit, which is positive, as
\* budget, and a Closed request holds budget 0 (in every state: the budget
\* is zeroed with the status, before the transfer); so no verifySubmission,
\* by any caller on any submission, reverts with 'No funds in escrow'.
C37_BudgetIsDepositOrZero ==
  /\ \A rid \in Created :
       /\ requests[rid].status = "OPEN" =>
            /\ requests[rid].budget = deposited[rid]
            /\ requests[rid].budget > 0
       /\ requests[rid].status = "CLOSED" => requests[rid].budget = 0
       /\ deposited[rid] > 0
  /\ \A sender \in Addr, sid \in 0..MaxSubmissions, approved \in BOOLEAN :
       verifySubmissionCheck(sender, sid, approved) # "No funds in escrow"

\* Between operations, a Closed request beside an Open one whose Pending
\* submission its verifier can finalize.
C37_Witness ==
  /\ ~InFlight
  /\ \E r1, r2 \in Created, sid \in Submitted :
       /\ requests[r1].status = "CLOSED"
       /\ requests[r2].status = "OPEN"
       /\ submissions[sid].requestId = r2
       /\ verifySubmissionCheck(qualityVerifier, sid, TRUE) = "ok"

\* ------------------------------------------------------------ finalizedSubmissionId
C38_NamesTheVerdict ==
  \A rid \in Created :
    LET r == requests[rid]
        s == Sub(r.finalizedSubmissionId)
    IN /\ r.status = "OPEN" => r.finalizedSubmissionId = 0
       /\ r.finalizedSubmissionId # 0 =>
            /\ r.status = "CLOSED"
            /\ s.id = r.finalizedSubmissionId
            /\ s.requestId = rid
            /\ s.qualityChecked
            /\ payouts[rid] = <<[to |-> IF s.status \in {"APPROVED", "PAID"}
                                          THEN s.seller ELSE r.buyer,
                                 amount |-> deposited[rid]]>>
            /\ IF InFlight /\ Top.rid = rid
                 THEN s.status \in {"APPROVED", "REJECTED"}
                 ELSE s.status \in {"PAID", "REFUNDED"}

C38_SetByVerdictOnly ==
  /\ \A rid \in RequestIds :
       CommittedReq(rid)'.finalizedSubmissionId
           # CommittedReq(rid).finalizedSubmissionId =>
         /\ transferSucceeds
         /\ \A f \in {Top} :
              /\ f.op = "verifySubmission"
              /\ f.rid = rid
              /\ CommittedReq(rid).finalizedSubmissionId = 0
              /\ CommittedReq(rid)'.finalizedSubmissionId = f.sid
  /\ CancelCompletes =>
       \A f \in {Top} : /\ requests'[f.rid].status = "CLOSED"
                        /\ requests'[f.rid].finalizedSubmissionId = 0
  /\ ApprovalCompletes \/ RejectionCompletes =>
       \A f \in {Top} : /\ requests'[f.rid].status = "CLOSED"
                        /\ f.sid # 0
                        /\ requests'[f.rid].finalizedSubmissionId = f.sid

\* C38: finalizedSubmissionId is 0 on an Open request; an operation leaves
\* it non-zero exactly when it is a completed verifySubmission, which
\* closes the request and writes the id of its submission, while a
\* completed cancelRequest closes the request and leaves 0; a non-zero id
\* names an existing submission of that request that is qualityChecked and,
\* between operations, Paid or Refunded (Approved or Rejected while its own
\* transfer is in flight), to whose payee the deposit went.
C38_FinalizedIdMeansVerdict == []C38_NamesTheVerdict /\ [][C38_SetByVerdictOnly]_vars

\* Between operations, a cancelled request beside a request whose finalized
\* submission was rejected and refunded.
C38_Witness ==
  /\ ~InFlight
  /\ \E r1, r2 \in Created :
       /\ requests[r1].status = "CLOSED"
       /\ requests[r1].finalizedSubmissionId = 0
       /\ requests[r2].finalizedSubmissionId # 0
       /\ submissions[requests[r2].finalizedSubmissionId].status = "REFUNDED"

\* ------------------------------------------------------------ no blocked escrow
C39_CancelOpen ==
  ~InFlight =>
    \A rid \in Created :
      requests[rid].status = "OPEN" =>
        /\ cancelRequestCheck(requests[rid].buyer, rid) = "ok"
        /\ ENABLED cancelRequest(requests[rid].buyer, rid)

C39_RefundArrives ==
  InFlight /\ Top.op = "cancelRequest" =>
    /\ Top.to = Top.snap.requests[Top.rid].buyer
    /\ Top.amount = deposited[Top.rid]
    /\ wallet[Top.to] = Top.snap.wallet[Top.to] + deposited[Top.rid]
    /\ ENABLED transferSucceeds

\* C39: escrowed funds cannot be blocked. Between operations the buyer's
\* cancelRequest of every Open request passes all its checks and can run,
\* whoever is owner or verifier (none included), whatever the whitelist,
\* registry and self-verify settings and however many Pending submissions
\* the request has; the call hands the buyer the deposit, and completes
\* when the buyer accepts it.
C39_BuyerCanAlwaysCancel == C39_CancelOpen /\ C39_RefundArrives

\* Between operations, an Open request with a Pending submission while no
\* verifier is set.
C39_Witness ==
  /\ ~InFlight
  /\ qualityVerifier = ZeroAddr
  /\ \E sid \in Submitted :
       /\ submissions[sid].status = "PENDING"
       /\ requests[submissions[sid].requestId].status = "OPEN"

\* ------------------------------------------------------------ dataset generation
\* The value of enum DataFormat that a data type names; TEXT for a name
\* that is none of the six.
FormatNamed(name) ==
  CASE name = "audio" -> 0
    [] name = "csv" -> 1
    [] name = "image" -> 2
    [] name = "text" -> 3
    [] name = "video" -> 4
    [] name = "mixed" -> 5
    [] OTHER -> 3

C40_Mapping ==
  \A dataType \in DataTypes :
    mapDataTypeToFormat(dataType) = JsNumber(FormatNamed(toLowerCase(dataType)))

C40_Recorded ==
  \A sender \in Addr, rid \in RequestIds, dataType \in DataTypes :
    generate(sender, rid, dataType) =>
      submissions'[submissionCounter'].format = FormatNamed(toLowerCase(dataType))

\* C40: mapDataTypeToFormat gives every data type, in any casing, the value
\* of its format in the enumeration (audio 0, csv 1, image 2, text 3,
\* video 4, mixed 5) and every other name 3, and the submission recorded
\* for a generated dataset has the format of the data type requested.
C40_FormatIsTheRequested == []C40_Mapping /\ [][C40_Recorded]_vars

\* The part of it for the names whose table entry is a non-zero number, and
\* for the names outside the table that no object inherits.
C40_MappingBesidesAudio ==
  \A dataType \in DataTypes :
    toLowerCase(dataType) \notin {"audio", "constructor"} =>
      mapDataTypeToFormat(dataType) = JsNumber(FormatNamed(toLowerCase(dataType)))

====
